---- MODULE Spec2Model ----
(***************************************************************************)
(* A model of crafty, a tree-walking interpreter: the scanner              *)
(* (src/src/scanner.rs), the recursive-descent parser (src/src/parser.rs)  *)
(* and the evaluator (src/src/runtime.rs).                                 *)
(*                                                                         *)
(* A source string is a sequence of characters; a character is a           *)
(* one-character string, except those written by name: "NL" is the line   *)
(* feed, "TAB" the tab, "CR" the carriage return, "DQ" the double quote    *)
(* and "EURO" the euro sign U+20AC, a character that is neither a digit    *)
(* nor alphabetic and takes three bytes in UTF-8.                          *)
(***************************************************************************)
EXTENDS Integers, Sequences, FiniteSets, TLC

VARIABLES
    \* scanner (scan_tokens and its Scanner)
    source,          \* the source string handed to scan_tokens
    scanner,         \* the Scanner: src_iter (as the count of characters taken),
                     \* lexeme, line_number, column_number
    tokens,          \* the Vec<Token> scan_tokens builds
    scan_pc,         \* "scanning" | "done" | "panic"
    \* parser (Parser::parse)
    parser,          \* the Parser: iter, current, previous
    statements,      \* the Vec<Statement> parse() builds, then the one interpret() walks
    parse_pc,        \* "idle" | "loop" | "ok" | "err"
    parse_error,     \* the ParseError parse() returned, None without one
    \* evaluator (ExprEvaluator::interpret)
    evaluator,       \* the ExprEvaluator
    eval_index,      \* the index in statements of the statement interpret() runs next
    eval_pc,         \* "idle" | "running" | "done" | "panic" | "looping"
    eval_result      \* the Result of the last statement visited, None before the first

scan_vars == <<source, scanner, tokens, scan_pc>>
parse_vars == <<parser, statements, parse_pc, parse_error>>
eval_vars == <<evaluator, eval_index, eval_pc, eval_result>>
vars == <<scan_vars, parse_vars, eval_vars>>

----------------------------------------------------------------------------
\* Bounds

\* longest source string the scanner specification enumerates
MaxSourceLen == 4

----------------------------------------------------------------------------
\* Characters

Digits == {"0", "1", "2", "3", "4", "5", "6", "7", "8", "9"}

Letters ==
    {"a", "b", "c", "d", "e", "f", "g", "h", "i", "j", "k", "l", "m",
     "n", "o", "p", "q", "r", "s", "t", "u", "v", "w", "x", "y", "z"}

\* char::is_digit(10)
is_digit(ch) == ch \in Digits

\* char::is_alphabetic
is_alphabetic(ch) == ch \in Letters

\* char::is_alphanumeric
is_alphanumeric(ch) == ch \in Letters \cup Digits

\* char::len_utf8: the bytes a character adds to a String
len_utf8(ch) == IF ch = "EURO" THEN 3 ELSE 1

RECURSIVE string_len(_)
\* String::len: the length of a string in bytes, not in characters
string_len(s) == IF s = <<>> THEN 0 ELSE len_utf8(Head(s)) + string_len(Tail(s))

\* u32 wrapping subtraction. A u32 of 2^31 or more is written as the negative
\* number congruent to it modulo 2^32 (the checker's integers are 32 bits wide),
\* so a result below 0 is the wrapped value 2^32 + (a - b).
wrapping_sub(a, b) == a - b

----------------------------------------------------------------------------
\* Scanner

\* None, for an Option<char>
NoChar == "NONE"

\* the Scanner scan_tokens constructs
NewScanner == [pos |-> 0, lexeme |-> <<>>, line_number |-> 1, column_number |-> 0]

\* Peekable::peek on src_iter
peek(src, S) == IF S.pos < Len(src) THEN src[S.pos + 1] ELSE NoChar

\* Scanner::advance: the scanner after the call (the character returned is
\* peek before the call); column_number grows even when the input is exhausted
advance(src, S) ==
    IF S.pos < Len(src)
    THEN [S EXCEPT !.pos = @ + 1,
                   !.column_number = @ + 1,
                   !.lexeme = Append(@, src[S.pos + 1])]
    ELSE [S EXCEPT !.column_number = @ + 1]

RECURSIVE consume_comment(_, _)
\* the loop `while self.advance() != None {}` of the '/' arm
consume_comment(src, S) ==
    IF peek(src, S) # NoChar THEN consume_comment(src, advance(src, S))
    ELSE advance(src, S)

RECURSIVE consume_string_loop(_, _)
consume_string_loop(src, S) ==
    IF peek(src, S) # NoChar /\ peek(src, S) # "DQ"
    THEN consume_string_loop(src, advance(src, S))
    ELSE S

\* Scanner::consume_string
consume_string(src, S) == advance(src, consume_string_loop(src, S))

RECURSIVE consume_digits(_, _)
\* the two `while let Some(ch) = peek` digit loops of consume_number
consume_digits(src, S) ==
    IF peek(src, S) # NoChar /\ is_digit(peek(src, S))
    THEN consume_digits(src, advance(src, S))
    ELSE S

\* Scanner::consume_number: the scanner after the call and the kind returned
consume_number(src, S) ==
    LET S1 == consume_digits(src, S) IN
    IF peek(src, S1) = "."
    THEN [S |-> consume_digits(src, advance(src, S1)), token_type |-> "Float"]
    ELSE [S |-> S1, token_type |-> "Integer"]

RECURSIVE consume_identifier(_, _)
\* Scanner::consume_identifier
consume_identifier(src, S) ==
    IF peek(src, S) # NoChar /\ is_alphanumeric(peek(src, S))
    THEN consume_identifier(src, advance(src, S))
    ELSE S

\* Scanner::identifier_token_type
identifier_token_type(lexeme) ==
    CASE lexeme = <<"a", "n", "d">> -> "And"
      [] lexeme = <<"c", "l", "a", "s", "s">> -> "Class"
      [] lexeme = <<"e", "l", "s", "e">> -> "Else"
      [] lexeme = <<"f", "a", "l", "s", "e">> -> "False"
      [] lexeme = <<"f", "o", "r">> -> "For"
      [] lexeme = <<"f", "u", "n">> -> "Fun"
      [] lexeme = <<"i", "f">> -> "If"
      [] lexeme = <<"n", "i", "l">> -> "Nil"
      [] lexeme = <<"o", "r">> -> "Or"
      [] lexeme = <<"p", "r", "i", "n", "t">> -> "Print"
      [] lexeme = <<"r", "e", "t", "u", "r", "n">> -> "Return"
      [] lexeme = <<"s", "u", "p", "e", "r">> -> "Super"
      [] lexeme = <<"t", "h", "i", "s">> -> "This"
      [] lexeme = <<"t", "r", "u", "e">> -> "True"
      [] lexeme = <<"v", "a", "r">> -> "Var"
      [] lexeme = <<"w", "h", "i", "l", "e">> -> "While"
      [] OTHER -> "Identifier"

\* the arm of a one-or-two character operator: `=` next makes the compound kind
two_char(src, S, single, compound) ==
    IF peek(src, S) = "="
    THEN [S |-> advance(src, S), token_type |-> compound]
    ELSE [S |-> S, token_type |-> single]

\* the first closure of Scanner::scan_token: ch is the character advance
\* returned and S the scanner after that advance
classify(src, S, ch) ==
    CASE ch = "(" -> [S |-> S, token_type |-> "LeftParen"]
      [] ch = ")" -> [S |-> S, token_type |-> "RightParen"]
      [] ch = "{" -> [S |-> S, token_type |-> "LeftBrace"]
      [] ch = "}" -> [S |-> S, token_type |-> "RightBrace"]
      [] ch = "," -> [S |-> S, token_type |-> "Comma"]
      [] ch = "." -> [S |-> S, token_type |-> "Dot"]
      [] ch = "-" -> [S |-> S, token_type |-> "Minus"]
      [] ch = "+" -> [S |-> S, token_type |-> "Plus"]
      [] ch = ";" -> [S |-> S, token_type |-> "Semicolon"]
      [] ch = "*" -> [S |-> S, token_type |-> "Star"]
      [] ch = "!" -> two_char(src, S, "Bang", "BangEqual")
      [] ch = "=" -> two_char(src, S, "Equal", "EqualEqual")
      [] ch = "<" -> two_char(src, S, "Less", "LessEqual")
      [] ch = ">" -> two_char(src, S, "Greater", "GreaterEqual")
      [] ch = "/" -> IF peek(src, S) = "/"
                     THEN [S |-> consume_comment(src, S), token_type |-> "Comment"]
                     ELSE [S |-> S, token_type |-> "Slash"]
      [] ch = " " -> [S |-> S, token_type |-> "Whitespace"]
      [] ch = "TAB" -> [S |-> S, token_type |-> "Whitespace"]
      [] ch = "CR" -> [S |-> S, token_type |-> "Whitespace"]
      [] ch = "NL" -> [S |-> S, token_type |-> "Newline"]
      [] ch = "DQ" -> [S |-> consume_string(src, S), token_type |-> "Str"]
      [] OTHER ->
            IF is_digit(ch) THEN consume_number(src, S)
            ELSE IF is_alphabetic(ch)
            THEN LET S1 == consume_identifier(src, S) IN
                 [S |-> S1, token_type |-> identifier_token_type(S1.lexeme)]
            ELSE [S |-> S, token_type |-> "Unknown"]

\* `self.column_number - self.lexeme.len() as u32` underflows
column_underflow(S) == S.column_number < string_len(S.lexeme)

\* make_token without `self.lexeme = String::from("")`
make_token_keeps_lexeme(S, token_type) ==
    [token |-> [token_type |-> token_type,
                lexeme |-> S.lexeme,
                line_number |-> S.line_number,
                column_number |-> wrapping_sub(S.column_number, string_len(S.lexeme))],
     S |-> [S EXCEPT !.line_number = IF token_type = "Newline" THEN @ + 1 ELSE @,
                     !.column_number = IF token_type = "Newline" THEN 0 ELSE @]]

\* the second closure of Scanner::scan_token: the token built and the scanner
\* left. The u32 subtraction wraps here (a build without overflow checks);
\* ScanTokenPanic is the build with them.
make_token(S, token_type) ==
    [token |-> [token_type |-> token_type,
                lexeme |-> S.lexeme,
                line_number |-> S.line_number,
                column_number |-> wrapping_sub(S.column_number, string_len(S.lexeme))],
     S |-> [S EXCEPT !.lexeme = <<>>,
                     !.line_number = IF token_type = "Newline" THEN @ + 1 ELSE @,
                     !.column_number = IF token_type = "Newline" THEN 0 ELSE @]]

\* the scanner and kind after the first closure of scan_token, when the input
\* is not exhausted
classified(src, S) == classify(src, advance(src, S), peek(src, S))

\* Scanner::scan_token when advance returns a character
scan_token(src, S) ==
    LET c == classified(src, S) IN make_token(c.S, c.token_type)

\* the Eof token scan_tokens pushes last
eof_token(S) ==
    [token_type |-> "Eof", lexeme |-> <<>>,
     line_number |-> S.line_number, column_number |-> S.column_number]

RECURSIVE scan_loop(_, _, _)
\* the loop of scan_tokens and the push of Eof, in a build where the column
\* subtraction wraps
scan_loop(src, S, toks) ==
    IF S.pos < Len(src)
    THEN scan_loop(src, scan_token(src, S).S, Append(toks, scan_token(src, S).token))
    ELSE Append(toks, eof_token(advance(src, S)))

\* scan_tokens
scan_tokens(src) == scan_loop(src, NewScanner, <<>>)

----------------------------------------------------------------------------
\* Parser (src/src/parser.rs). The parser is a record P: iter is the number
\* of tokens taken from the iterator, current and previous are indices into the
\* token list, 0 for None. Every rule takes the token list and the parser and
\* returns a Result with the parser it leaves: [ok |-> TRUE, v, P] for Ok(v)
\* and [ok |-> FALSE, error, P] for Err(error).

\* the Parser before parse(): nothing taken, current and previous None
NewParser == [iter |-> 0, current |-> 0, previous |-> 0]

\* The({e : x \in {v}}) is e with x bound to v: a let that evaluates v once
The(S) == CHOOSE v \in S : TRUE

Ok(v, P) == [ok |-> TRUE, v |-> v, P |-> P]
Err(error, P) == [ok |-> FALSE, error |-> error, P |-> P]

\* Option::None in the AST
None == [t |-> "None"]

\* Expr and Statement constructors
Grouping(e) == [t |-> "Grouping", e |-> e]
Binary(l, op, r) == [t |-> "Binary", l |-> l, op |-> op, r |-> r]
Unary(op, r) == [t |-> "Unary", op |-> op, r |-> r]
Operator(token_type, lexeme) == [t |-> "Operator", token_type |-> token_type, lexeme |-> lexeme]
BoolLiteral(b) == [t |-> "BoolLiteral", b |-> b]
StringLiteral(n) == [t |-> "StringLiteral", n |-> n]
IntegerLiteral(n) == [t |-> "IntegerLiteral", n |-> n]
FloatLiteral(n) == [t |-> "FloatLiteral", n |-> n]
Logical(l, token_type, r) == [t |-> "Logical", l |-> l, token_type |-> token_type, r |-> r]
Variable(token) == [t |-> "Variable", token |-> token]
Assign(token, value) == [t |-> "Assign", token |-> token, value |-> value]

ExpressionStmt(e) == [t |-> "Expression", e |-> e]
IfStmt(c, then, else) == [t |-> "If", c |-> c, then |-> then, else |-> else]
PrintStmt(e) == [t |-> "Print", e |-> e]
VarStmt(token, initializer) == [t |-> "Var", token |-> token, initializer |-> initializer]
WhileStmt(c, body) == [t |-> "While", c |-> c, body |-> body]
BlockStmt(stmts) == [t |-> "Block", stmts |-> stmts]

\* Parser::error: the three formats, kept as the parts of the formatted string
error(toks, P, message) ==
    IF P.current = 0
    THEN [message |-> message, at |-> "unexpected EOF"]
    ELSE IF toks[P.current].token_type = "Eof"
    THEN [message |-> message, at |-> "at end of file",
          line |-> toks[P.current].line_number, column |-> toks[P.current].column_number]
    ELSE [message |-> message, at |-> "at", lexeme |-> toks[P.current].lexeme,
          line |-> toks[P.current].line_number, column |-> toks[P.current].column_number]

\* Parser::advance
parser_advance(toks, P) ==
    [iter |-> IF P.iter < Len(toks) THEN P.iter + 1 ELSE P.iter,
     current |-> IF P.iter < Len(toks) THEN P.iter + 1 ELSE 0,
     previous |-> P.current]

\* Parser::is_at_end
is_at_end(toks, P) == IF P.current # 0 THEN toks[P.current].token_type = "Eof" ELSE TRUE

\* Parser::check
check(toks, P, token_type) ==
    IF P.current # 0 THEN toks[P.current].token_type = token_type ELSE FALSE

\* Parser::token_match: whether it matched, and the parser it leaves
token_match(toks, P, token_types) ==
    IF P.current # 0 /\ toks[P.current].token_type \in token_types
    THEN [matched |-> TRUE, P |-> parser_advance(toks, P)]
    ELSE [matched |-> FALSE, P |-> P]

\* consume taking the token it was asked for or not
consume_advances_on_failure(toks, P, token_type) ==
    IF check(toks, P, token_type)
    THEN Ok(toks[P.current], parser_advance(toks, P))
    ELSE Err(error(toks, P, <<"expected", token_type, "after expression">>),
             parser_advance(toks, P))

\* Parser::consume
consume(toks, P, token_type) ==
    IF check(toks, P, token_type)
    THEN Ok(toks[P.current], parser_advance(toks, P))
    ELSE Err(error(toks, P, <<"expected", token_type, "after expression">>), P)

\* Parser::previous_token
previous_token(toks, P) ==
    IF P.previous # 0
    THEN Ok(Operator(toks[P.previous].token_type, toks[P.previous].lexeme), P)
    ELSE Err(error(toks, P, "Internal Parser Error: No previous token found"), P)

RECURSIVE declaration(_, _), var_declaration(_, _), statement(_, _)
RECURSIVE for_statement(_, _), if_statement(_, _), while_statement(_, _)
RECURSIVE block(_, _), block_loop(_, _, _)
RECURSIVE print_statement(_, _), expression_statement(_, _)
RECURSIVE expression(_, _), assignment(_, _)
RECURSIVE or(_, _), or_loop(_, _, _), and(_, _), and_loop(_, _, _)
RECURSIVE equality(_, _), equality_loop(_, _, _)
RECURSIVE comparison(_, _), comparison_loop(_, _, _)
RECURSIVE addition(_, _), addition_loop(_, _, _)
RECURSIVE multiplication(_, _), multiplication_loop(_, _, _)
RECURSIVE unary(_, _), primary(_, _)

\* the literal arms of Parser::primary that read self.previous: tag is the
\* Expr variant built from the previous token's lexeme
primary_previous(toks, P, tag) ==
    IF P.previous # 0
    THEN Ok([t |-> tag, n |-> toks[P.previous].lexeme], P)
    ELSE Err(error(toks, P, "I DONT KNOW WHAT HAPPENED"), P)

\* Parser::primary
primary(toks, P) ==
    IF token_match(toks, P, {"False"}).matched
    THEN Ok(BoolLiteral(FALSE), token_match(toks, P, {"False"}).P)
    ELSE IF token_match(toks, P, {"True"}).matched
    THEN Ok(BoolLiteral(TRUE), token_match(toks, P, {"True"}).P)
    ELSE IF token_match(toks, P, {"Integer"}).matched
    THEN primary_previous(toks, token_match(toks, P, {"Integer"}).P, "IntegerLiteral")
    ELSE IF token_match(toks, P, {"Float"}).matched
    THEN primary_previous(toks, token_match(toks, P, {"Float"}).P, "FloatLiteral")
    ELSE IF token_match(toks, P, {"Str"}).matched
    THEN primary_previous(toks, token_match(toks, P, {"Str"}).P, "StringLiteral")
    ELSE IF token_match(toks, P, {"Identifier"}).matched
    THEN LET P1 == token_match(toks, P, {"Identifier"}).P IN
         IF P1.previous # 0 THEN Ok(Variable(toks[P1.previous]), P1)
         ELSE Err(error(toks, P1, "I DONT KNOW WHAT HAPPENED"), P1)
    ELSE IF token_match(toks, P, {"LeftParen"}).matched
    THEN The({ IF ~expr.ok THEN expr
               ELSE LET c == consume(toks, expr.P, "RightParen") IN
                    IF ~c.ok THEN c ELSE Ok(Grouping(expr.v), c.P)
               : expr \in {expression(toks, token_match(toks, P, {"LeftParen"}).P)} })
    ELSE Err(error(toks, P, "Expected literal"), P)

\* Parser::unary
unary(toks, P) ==
    LET m == token_match(toks, P, {"Bang", "Minus"}) IN
    IF m.matched
    THEN LET operator == previous_token(toks, m.P) IN
         IF ~operator.ok THEN operator
         ELSE The({ IF ~right.ok THEN right ELSE Ok(Unary(operator.v, right.v), right.P)
                    : right \in {unary(toks, operator.P)} })
    ELSE primary(toks, P)

\* the while loop of Parser::multiplication
multiplication_loop(toks, P, expr) ==
    LET m == token_match(toks, P, {"Slash", "Star"}) IN
    IF ~m.matched THEN Ok(expr, P)
    ELSE LET operator == previous_token(toks, m.P) IN
         IF ~operator.ok THEN operator
         ELSE The({ IF ~right.ok THEN right
                    ELSE multiplication_loop(toks, right.P, Binary(expr, operator.v, right.v))
                    : right \in {unary(toks, operator.P)} })

\* multiplication that takes the addition operators too
multiplication_with_addition(toks, P) ==
    The({ IF ~expr.ok THEN expr ELSE addition_loop(toks, expr.P, expr.v)
          : expr \in {unary(toks, P)} })

\* Parser::multiplication
multiplication(toks, P) ==
    The({ IF ~expr.ok THEN expr ELSE multiplication_loop(toks, expr.P, expr.v)
          : expr \in {unary(toks, P)} })

\* addition_loop that parses everything to the right of the operator first
addition_loop_right(toks, P, expr) ==
    LET m == token_match(toks, P, {"Minus", "Plus"}) IN
    IF ~m.matched THEN Ok(expr, P)
    ELSE LET operator == previous_token(toks, m.P) IN
         IF ~operator.ok THEN operator
         ELSE The({ IF ~right.ok THEN right
                    ELSE Ok(Binary(expr, operator.v, right.v), right.P)
                    : right \in {addition(toks, operator.P)} })

\* the while loop of Parser::addition
addition_loop(toks, P, expr) ==
    LET m == token_match(toks, P, {"Minus", "Plus"}) IN
    IF ~m.matched THEN Ok(expr, P)
    ELSE LET operator == previous_token(toks, m.P) IN
         IF ~operator.ok THEN operator
         ELSE The({ IF ~right.ok THEN right
                    ELSE addition_loop(toks, right.P, Binary(expr, operator.v, right.v))
                    : right \in {multiplication(toks, operator.P)} })

\* Parser::addition
addition(toks, P) ==
    The({ IF ~expr.ok THEN expr ELSE addition_loop(toks, expr.P, expr.v)
          : expr \in {multiplication(toks, P)} })

\* the while loop of Parser::comparison
comparison_loop(toks, P, expr) ==
    LET m == token_match(toks, P, {"Greater", "GreaterEqual", "Less", "LessEqual"}) IN
    IF ~m.matched THEN Ok(expr, P)
    ELSE LET operator == previous_token(toks, m.P) IN
         IF ~operator.ok THEN operator
         ELSE The({ IF ~right.ok THEN right
                    ELSE comparison_loop(toks, right.P, Binary(expr, operator.v, right.v))
                    : right \in {addition(toks, operator.P)} })

\* Parser::comparison
comparison(toks, P) ==
    The({ IF ~expr.ok THEN expr ELSE comparison_loop(toks, expr.P, expr.v)
          : expr \in {addition(toks, P)} })

\* the while loop of Parser::equality
equality_loop(toks, P, expr) ==
    LET m == token_match(toks, P, {"BangEqual", "EqualEqual"}) IN
    IF ~m.matched THEN Ok(expr, P)
    ELSE LET operator == previous_token(toks, m.P) IN
         IF ~operator.ok THEN operator
         ELSE The({ IF ~right.ok THEN right
                    ELSE equality_loop(toks, right.P, Binary(expr, operator.v, right.v))
                    : right \in {comparison(toks, operator.P)} })

\* Parser::equality
equality(toks, P) ==
    The({ IF ~expr.ok THEN expr ELSE equality_loop(toks, expr.P, expr.v)
          : expr \in {comparison(toks, P)} })

\* the while loop of Parser::and
and_loop_as_or(toks, P, expr) ==
    LET m == token_match(toks, P, {"And"}) IN
    IF ~m.matched THEN Ok(expr, P)
    ELSE The({ IF ~right.ok THEN right
               ELSE and_loop(toks, right.P, Logical(expr, "Or", right.v))
               : right \in {equality(toks, m.P)} })

\* the while loop of Parser::and
and_loop(toks, P, expr) ==
    LET m == token_match(toks, P, {"And"}) IN
    IF ~m.matched THEN Ok(expr, P)
    ELSE The({ IF ~right.ok THEN right
               ELSE and_loop(toks, right.P, Logical(expr, "And", right.v))
               : right \in {equality(toks, m.P)} })

\* Parser::and
and(toks, P) ==
    The({ IF ~expr.ok THEN expr ELSE and_loop(toks, expr.P, expr.v)
          : expr \in {equality(toks, P)} })

\* the while loop of Parser::or
or_loop(toks, P, expr) ==
    LET m == token_match(toks, P, {"Or"}) IN
    IF ~m.matched THEN Ok(expr, P)
    ELSE The({ IF ~right.ok THEN right
               ELSE or_loop(toks, right.P, Logical(expr, "Or", right.v))
               : right \in {and(toks, m.P)} })

\* Parser::or
or(toks, P) ==
    The({ IF ~expr.ok THEN expr ELSE or_loop(toks, expr.P, expr.v)
          : expr \in {and(toks, P)} })

\* assignment_target that looks through a Grouping for the Variable
assignment_target_ungrouped(toks, P, expr, value) ==
    IF expr.t = "Variable" THEN Ok(Assign(expr.token, value), P)
    ELSE IF expr.t = "Grouping" /\ expr.e.t = "Variable" THEN Ok(Assign(expr.e.token, value), P)
    ELSE Err(error(toks, P, "Invalid assignment target."), P)

\* the `match *expr` of Parser::assignment: expr is the left-hand side, value
\* the parsed right-hand side and P the parser after it
assignment_target(toks, P, expr, value) ==
    IF expr.t = "Variable" THEN Ok(Assign(expr.token, value), P)
    ELSE Err(error(toks, P, "Invalid assignment target."), P)

\* Parser::assignment
assignment(toks, P) ==
    The({ IF ~expr.ok THEN expr
          ELSE LET m == token_match(toks, expr.P, {"Equal"}) IN
               IF m.matched
               THEN The({ IF ~value.ok THEN value
                          ELSE assignment_target(toks, value.P, expr.v, value.v)
                          : value \in {assignment(toks, m.P)} })
               ELSE Ok(expr.v, expr.P)
          : expr \in {or(toks, P)} })

\* Parser::expression
expression(toks, P) == assignment(toks, P)

\* Parser::expression_statement
expression_statement(toks, P) ==
    The({ IF ~value.ok THEN value
          ELSE LET c == consume(toks, value.P, "Semicolon") IN
               IF ~c.ok THEN c ELSE Ok(ExpressionStmt(value.v), c.P)
          : value \in {expression(toks, P)} })

\* Parser::print_statement
print_statement(toks, P) ==
    The({ IF ~value.ok THEN value
          ELSE LET c == consume(toks, value.P, "Semicolon") IN
               IF ~c.ok THEN c ELSE Ok(PrintStmt(value.v), c.P)
          : value \in {expression(toks, P)} })

\* the while loop of Parser::block
block_loop(toks, P, stmts) ==
    IF ~check(toks, P, "RightBrace") /\ ~is_at_end(toks, P)
    THEN The({ IF ~d.ok THEN d ELSE block_loop(toks, d.P, Append(stmts, d.v))
               : d \in {declaration(toks, P)} })
    ELSE Ok(stmts, P)

\* Parser::block
block(toks, P) ==
    The({ IF ~stmts.ok THEN stmts
          ELSE LET c == consume(toks, stmts.P, "RightBrace") IN
               IF ~c.ok THEN c ELSE Ok(stmts.v, c.P)
          : stmts \in {block_loop(toks, P, <<>>)} })

\* Parser::while_statement
while_statement(toks, P) ==
    LET lp == consume(toks, P, "LeftParen") IN
    IF ~lp.ok THEN lp
    ELSE The({
        IF ~condition.ok THEN condition
        ELSE LET rp == consume(toks, condition.P, "RightParen") IN
        IF ~rp.ok THEN rp
        ELSE The({ IF ~body.ok THEN body
                   ELSE Ok(WhileStmt(condition.v, body.v), body.P)
                   : body \in {statement(toks, rp.P)} })
        : condition \in {expression(toks, lp.P)} })

\* the else clause of Parser::if_statement
if_else(toks, P, condition, then_branch) ==
    LET m == token_match(toks, P, {"Else"}) IN
    IF m.matched
    THEN The({ IF ~else_branch.ok THEN else_branch
               ELSE Ok(IfStmt(condition, then_branch, else_branch.v), else_branch.P)
               : else_branch \in {statement(toks, m.P)} })
    ELSE Ok(IfStmt(condition, then_branch, None), m.P)

\* Parser::if_statement
if_statement(toks, P) ==
    LET lp == consume(toks, P, "LeftParen") IN
    IF ~lp.ok THEN lp
    ELSE The({
        IF ~condition.ok THEN condition
        ELSE LET rp == consume(toks, condition.P, "RightParen") IN
        IF ~rp.ok THEN rp
        ELSE The({ IF ~then_branch.ok THEN then_branch
                   ELSE if_else(toks, then_branch.P, condition.v, then_branch.v)
                   : then_branch \in {statement(toks, rp.P)} })
        : condition \in {expression(toks, lp.P)} })

\* the initializer clause of Parser::for_statement: v is None or the statement
for_initializer(toks, P) ==
    IF token_match(toks, P, {"Semicolon"}).matched
    THEN Ok(None, token_match(toks, P, {"Semicolon"}).P)
    ELSE IF token_match(toks, P, {"Var"}).matched
    THEN var_declaration(toks, token_match(toks, P, {"Var"}).P)
    ELSE expression_statement(toks, P)

\* the condition clause with an absent condition read as false
for_condition_absent_false(toks, P) ==
    IF ~check(toks, P, "Semicolon") THEN expression(toks, P)
    ELSE Ok(BoolLiteral(FALSE), P)

\* the condition clause of Parser::for_statement
for_condition(toks, P) ==
    IF ~check(toks, P, "Semicolon") THEN expression(toks, P)
    ELSE Ok(BoolLiteral(TRUE), P)

\* the increment clause of Parser::for_statement: v is None or the expression
for_increment(toks, P) ==
    IF ~check(toks, P, "RightParen") THEN expression(toks, P)
    ELSE Ok(None, P)

\* the two desugaring matches at the end of Parser::for_statement
for_desugar_without_increment(initializer, condition, increment, body) ==
    LET body2 == WhileStmt(condition, body)
    IN IF initializer # None THEN BlockStmt(<<initializer, body2>>) ELSE body2

\* the statement Parser::for_statement builds from the parts it parsed
for_desugar(initializer, condition, increment, body) ==
    LET body1 == IF increment # None
                 THEN BlockStmt(<<body, ExpressionStmt(increment)>>)
                 ELSE body
        body2 == WhileStmt(condition, body1)
    IN IF initializer # None THEN BlockStmt(<<initializer, body2>>) ELSE body2

\* Parser::for_statement
for_statement(toks, P) ==
    LET lp == consume(toks, P, "LeftParen") IN
    IF ~lp.ok THEN lp
    ELSE The({
        IF ~initializer.ok THEN initializer
        ELSE The({
            IF ~condition.ok THEN condition
            ELSE LET semi == consume(toks, condition.P, "Semicolon") IN
            IF ~semi.ok THEN semi
            ELSE The({
                IF ~increment.ok THEN increment
                ELSE LET rp == consume(toks, increment.P, "RightParen") IN
                IF ~rp.ok THEN rp
                ELSE The({ IF ~body.ok THEN body
                           ELSE Ok(for_desugar(initializer.v, condition.v,
                                               increment.v, body.v), body.P)
                           : body \in {statement(toks, rp.P)} })
                : increment \in {for_increment(toks, semi.P)} })
            : condition \in {for_condition(toks, initializer.P)} })
        : initializer \in {for_initializer(toks, lp.P)} })

\* Parser::statement
statement(toks, P) ==
    IF token_match(toks, P, {"For"}).matched
    THEN for_statement(toks, token_match(toks, P, {"For"}).P)
    ELSE IF token_match(toks, P, {"If"}).matched
    THEN if_statement(toks, token_match(toks, P, {"If"}).P)
    ELSE IF token_match(toks, P, {"Print"}).matched
    THEN print_statement(toks, token_match(toks, P, {"Print"}).P)
    ELSE IF token_match(toks, P, {"While"}).matched
    THEN while_statement(toks, token_match(toks, P, {"While"}).P)
    ELSE IF token_match(toks, P, {"LeftBrace"}).matched
    THEN The({ IF ~b.ok THEN b ELSE Ok(BlockStmt(b.v), b.P)
               : b \in {block(toks, token_match(toks, P, {"LeftBrace"}).P)} })
    ELSE expression_statement(toks, P)

\* the initializer clause of Parser::var_declaration: v is None or the expression
var_initializer(toks, P) ==
    LET m == token_match(toks, P, {"Equal"}) IN
    IF m.matched THEN expression(toks, m.P) ELSE Ok(None, m.P)

\* Parser::var_declaration
var_declaration(toks, P) ==
    LET name == consume(toks, P, "Identifier") IN
    IF ~name.ok THEN name
    ELSE The({
        IF ~initializer.ok THEN initializer
        ELSE LET semi == consume(toks, initializer.P, "Semicolon") IN
        IF ~semi.ok THEN semi
        ELSE Ok(VarStmt(name.v, initializer.v), semi.P)
        : initializer \in {var_initializer(toks, name.P)} })

\* Parser::declaration
declaration(toks, P) ==
    IF token_match(toks, P, {"Var"}).matched
    THEN var_declaration(toks, token_match(toks, P, {"Var"}).P)
    ELSE statement(toks, P)

RECURSIVE parse_loop(_, _, _)
\* the loop of Parser::parse
parse_loop(toks, P, stmts) ==
    IF is_at_end(toks, P) THEN Ok(stmts, P)
    ELSE The({ IF ~d.ok THEN d ELSE parse_loop(toks, d.P, Append(stmts, d.v))
               : d \in {declaration(toks, P)} })

\* Parser::parse
parse(toks) == parse_loop(toks, parser_advance(toks, NewParser), <<>>)

----------------------------------------------------------------------------
\* Evaluator (src/src/runtime.rs)

\* Object. An Integer stays far from the i64 limits in every run checked. A
\* Float is the exact fraction num/den in lowest terms with den > 0; den = 0
\* marks the IEEE-754 specials: num = 1 is +inf, num = -1 is -inf, num = 0 NaN.
Nil == [t |-> "Nil"]
Integer(i) == [t |-> "Integer", i |-> i]
Boolean(b) == [t |-> "Boolean", b |-> b]
StringObject(n) == [t |-> "StringLiteral", n |-> n]

Abs(n) == IF n < 0 THEN -n ELSE n

RECURSIVE Gcd(_, _)
Gcd(a, b) == IF b = 0 THEN a ELSE Gcd(b, a % b)

\* the f64 num/den
Float(num, den) ==
    IF den = 0 THEN [t |-> "Float", num |-> IF num > 0 THEN 1 ELSE IF num < 0 THEN -1 ELSE 0, den |-> 0]
    ELSE LET g == Gcd(Abs(num), Abs(den))
             sg == IF den < 0 THEN -1 ELSE 1
         IN [t |-> "Float", num |-> sg * (num \div g), den |-> sg * (den \div g)]

\* `i as f64`
as_f64(i) == Float(i, 1)

is_nan(a) == a.den = 0 /\ a.num = 0

\* f64 addition, subtraction, multiplication, division (the sign of a zero is
\* not kept)
f_add(a, b) ==
    IF is_nan(a) \/ is_nan(b) THEN Float(0, 0)
    ELSE IF a.den = 0 /\ b.den = 0 THEN (IF a.num = b.num THEN a ELSE Float(0, 0))
    ELSE IF a.den = 0 THEN a
    ELSE IF b.den = 0 THEN b
    ELSE Float(a.num * b.den + b.num * a.den, a.den * b.den)

f_neg(a) == [a EXCEPT !.num = -@]

f_sub(a, b) == f_add(a, f_neg(b))

f_mul(a, b) ==
    IF is_nan(a) \/ is_nan(b) THEN Float(0, 0)
    ELSE IF a.den = 0 \/ b.den = 0 THEN Float(a.num * b.num, 0)
    ELSE Float(a.num * b.num, a.den * b.den)

f_div(a, b) ==
    IF is_nan(a) \/ is_nan(b) THEN Float(0, 0)
    ELSE IF b.den = 0 THEN (IF a.den = 0 THEN Float(0, 0) ELSE Float(0, 1))
    ELSE IF b.num = 0 THEN Float(a.num, 0)
    ELSE IF a.den = 0 THEN Float(a.num * b.num, 0)
    ELSE Float(a.num * b.den, a.den * b.num)

\* f64 comparisons: every comparison with NaN but != is false
f_eq(a, b) == ~is_nan(a) /\ ~is_nan(b) /\ a = b
f_lt(a, b) ==
    /\ ~is_nan(a) /\ ~is_nan(b) /\ a # b
    /\ IF a.den = 0 THEN a.num < 0
       ELSE IF b.den = 0 THEN b.num > 0
       ELSE a.num * b.den < b.num * a.den

digit_value(ch) ==
    CASE ch = "0" -> 0 [] ch = "1" -> 1 [] ch = "2" -> 2 [] ch = "3" -> 3 [] ch = "4" -> 4
      [] ch = "5" -> 5 [] ch = "6" -> 6 [] ch = "7" -> 7 [] ch = "8" -> 8 [] ch = "9" -> 9

RECURSIVE digits_value(_)
\* the number a string of decimal digits writes
digits_value(n) ==
    IF n = <<>> THEN 0 ELSE 10 * digits_value(SubSeq(n, 1, Len(n) - 1)) + digit_value(n[Len(n)])

RECURSIVE pow10(_)
pow10(k) == IF k = 0 THEN 1 ELSE 10 * pow10(k - 1)

all_digits(n) == \A k \in 1..Len(n) : is_digit(n[k])

\* i64::MAX, as the string of its decimal digits
I64_MAX_DIGITS ==
    <<"9", "2", "2", "3", "3", "7", "2", "0", "3", "6", "8", "5", "4", "7", "7", "5", "8", "0", "7">>

RECURSIVE strip_zeros(_)
strip_zeros(n) == IF Len(n) > 1 /\ Head(n) = "0" THEN strip_zeros(Tail(n)) ELSE n

RECURSIVE digits_greater(_, _)
\* a > b for two digit strings of one length
digits_greater(a, b) ==
    IF a = <<>> THEN FALSE
    ELSE IF Head(a) # Head(b) THEN digit_value(Head(a)) > digit_value(Head(b))
    ELSE digits_greater(Tail(a), Tail(b))

\* whether str::parse::<i64> returns Ok on n (a sign is not modelled: the
\* scanner puts none in an Integer lexeme)
parse_i64_ok(n) ==
    /\ n # <<>>
    /\ all_digits(n)
    /\ LET d == strip_zeros(n) IN
        \/ Len(d) < Len(I64_MAX_DIGITS)
        \/ Len(d) = Len(I64_MAX_DIGITS) /\ ~digits_greater(d, I64_MAX_DIGITS)

\* whether str::parse::<f64> returns Ok on n: digits, with at most one `.`
\* among them, and at least one digit
parse_f64_ok(n) ==
    /\ \E k \in 1..Len(n) : is_digit(n[k])
    /\ \A k \in 1..Len(n) : is_digit(n[k]) \/ n[k] = "."
    /\ Cardinality({k \in 1..Len(n) : n[k] = "."}) <= 1

\* the f64 that str::parse::<f64> returns
parse_f64(n) ==
    LET dots == {k \in 1..Len(n) : n[k] = "."} IN
    IF dots = {} THEN Float(digits_value(n), 1)
    ELSE LET d == CHOOSE k \in dots : TRUE IN
         Float(digits_value(SubSeq(n, 1, d - 1) \o SubSeq(n, d + 1, Len(n))),
               pow10(Len(n) - d))

\* Result<Object, RuntimeError> with the evaluator left: "Ok", "Err", or
\* "Panic" when the thread panicked (an unwrap on Err)
EvOk(v, E) == [status |-> "Ok", v |-> v, E |-> E]
EvErr(message, E) == [status |-> "Err", message |-> message, E |-> E]
EvPanic(message, E) == [status |-> "Panic", message |-> message, E |-> E]

\* HashMap::new()
EmptyMap == [n \in {} |-> Nil]

\* HashMap::insert
map_insert(m, name, object) ==
    [n \in DOMAIN m \cup {name} |-> IF n = name THEN object ELSE m[n]]

\* build_interpreter: environments is the scope stack, innermost last. output
\* is what println! has written; blocks records, for every execute_block that
\* returned, the scope count when it was entered and when it returned; defines
\* records, for every call of define_variable by a Var statement, its arguments
\* and the scope stack before and after it; assigns and gets record the same
\* for every call of assign_variable by an Assign expression and of
\* get_variable by a Variable expression, with the Result returned.
build_interpreter ==
    [environments |-> <<EmptyMap>>, output |-> <<>>, blocks |-> <<>>, defines |-> <<>>,
     assigns |-> <<>>, gets |-> <<>>]

\* define_variable writing into the nearest scope that has the name, the
\* innermost when none has (what assign_variable's search would do)
define_variable_nearest(E, name, object) ==
    LET has == {k \in 1..Len(E.environments) : name \in DOMAIN E.environments[k]}
        k == IF has = {} THEN Len(E.environments) ELSE CHOOSE m \in has : \A n \in has : n <= m
    IN [E EXCEPT !.environments[k] = map_insert(@, name, object)]

\* ExprEvaluator::define_variable
define_variable(E, name, object) ==
    IF Len(E.environments) > 0
    THEN [E EXCEPT !.environments[Len(E.environments)] = map_insert(@, name, object)]
    ELSE E

\* the record of a call of define_variable from evaluator E to evaluator D
define_record(E, D, name, object) ==
    [name |-> name, object |-> object, before |-> E.environments, after |-> D.environments]

\* the record of a call of assign_variable or get_variable on evaluator E that
\* returned the Result r
call_record(E, r, name) ==
    [name |-> name, before |-> E.environments, after |-> r.E.environments,
     result |-> [x \in DOMAIN r \ {"E"} |-> r[x]]]

\* get_variable searching the scopes from the outermost
get_variable_outermost(E, name, k) ==
    LET has == {j \in 1..Len(E.environments) : name \in DOMAIN E.environments[j]} IN
    IF has = {} THEN EvErr(<<"Undefined variable '", name, "'.">>, E)
    ELSE EvOk(E.environments[CHOOSE j \in has : \A i \in has : j <= i][name], E)

RECURSIVE get_variable_from(_, _, _)
\* the loop of get_variable, at scope k of the reversed iteration
get_variable_from(E, name, k) ==
    IF k = 0 THEN EvErr(<<"Undefined variable '", name, "'.">>, E)
    ELSE IF name \in DOMAIN E.environments[k] THEN EvOk(E.environments[k][name], E)
    ELSE get_variable_from(E, name, k - 1)

\* ExprEvaluator::get_variable
get_variable(E, name) == get_variable_from(E, name, Len(E.environments))

\* assign_variable overwriting in the outermost scope that has the name
assign_variable_outermost(E, name, object, k) ==
    LET has == {j \in 1..Len(E.environments) : name \in DOMAIN E.environments[j]} IN
    IF has = {} THEN EvErr(<<"Undefined variable '", name, "'.">>, E)
    ELSE EvOk(object, [E EXCEPT !.environments[CHOOSE j \in has : \A i \in has : j <= i] =
                                    map_insert(@, name, object)])

\* assign_variable inserting into the innermost scope when no scope has the name
assign_variable_or_insert(E, name, object, k) ==
    LET has == {j \in 1..Len(E.environments) : name \in DOMAIN E.environments[j]}
        top == IF has = {} THEN Len(E.environments) ELSE CHOOSE j \in has : \A i \in has : i <= j
    IN EvOk(object, [E EXCEPT !.environments[top] = map_insert(@, name, object)])

RECURSIVE assign_variable_from(_, _, _, _)
\* the loop of assign_variable, at scope k of the reversed iteration
assign_variable_from(E, name, object, k) ==
    IF k = 0 THEN EvErr(<<"Undefined variable '", name, "'.">>, E)
    ELSE IF name \in DOMAIN E.environments[k]
    THEN EvOk(object, [E EXCEPT !.environments[k] = map_insert(@, name, object)])
    ELSE assign_variable_from(E, name, object, k - 1)

\* ExprEvaluator::assign_variable
assign_variable(E, name, object) == assign_variable_from(E, name, object, Len(E.environments))

\* operator_from_expression
operator_from_expression(e, E) ==
    IF e.t = "Operator"
    THEN CASE e.token_type = "Bang" -> EvOk("Bang", E)
           [] e.token_type = "BangEqual" -> EvOk("BangEqual", E)
           [] e.token_type = "Equal" -> EvOk("Equal", E)
           [] e.token_type = "EqualEqual" -> EvOk("EqualEqual", E)
           [] e.token_type = "Greater" -> EvOk("Greater", E)
           [] e.token_type = "GreaterEqual" -> EvOk("GreaterEqual", E)
           [] e.token_type = "Less" -> EvOk("Less", E)
           [] e.token_type = "LessEqual" -> EvOk("LessEqual", E)
           [] e.token_type = "Minus" -> EvOk("Subtract", E)
           [] e.token_type = "Plus" -> EvOk("Add", E)
           [] e.token_type = "Star" -> EvOk("Multiply", E)
           [] e.token_type = "Slash" -> EvOk("Divide", E)
           [] OTHER -> EvErr(<<"Received unknown operator", e.token_type>>, E)
    ELSE EvErr("Received non-operator expression in operator expression field", E)

both(l, r, lt, rt) == l.t = lt /\ r.t = rt

\* the `match (lhs_value, rhs_value)` of an arithmetic operator
arithmetic(op, l, r, E) ==
    LET fl == IF l.t = "Integer" THEN as_f64(l.i) ELSE l
        fr == IF r.t = "Integer" THEN as_f64(r.i) ELSE r
    IN
    IF both(l, r, "Integer", "Integer") /\ op # "Divide"
    THEN EvOk(Integer(CASE op = "Add" -> l.i + r.i
                        [] op = "Subtract" -> l.i - r.i
                        [] op = "Multiply" -> l.i * r.i), E)
    ELSE IF l.t \in {"Integer", "Float"} /\ r.t \in {"Integer", "Float"}
    THEN EvOk(CASE op = "Add" -> f_add(fl, fr)
                [] op = "Subtract" -> f_sub(fl, fr)
                [] op = "Multiply" -> f_mul(fl, fr)
                [] op = "Divide" -> f_div(fl, fr), E)
    ELSE EvErr(<<"lhs is", l, "rhs is", r, "cannot", op>>, E)

\* the `match (lhs_value, rhs_value)` of a comparison or equality operator
compare(op, l, r, E) ==
    LET fl == IF l.t = "Integer" THEN as_f64(l.i) ELSE l
        fr == IF r.t = "Integer" THEN as_f64(r.i) ELSE r
    IN
    IF l.t \in {"Integer", "Float"} /\ r.t \in {"Integer", "Float"}
    THEN EvOk(Boolean(CASE op = "BangEqual" -> ~f_eq(fl, fr)
                        [] op = "EqualEqual" -> f_eq(fl, fr)
                        [] op = "Greater" -> f_lt(fr, fl)
                        [] op = "GreaterEqual" -> f_lt(fr, fl) \/ f_eq(fl, fr)
                        [] op = "Less" -> f_lt(fl, fr)
                        [] op = "LessEqual" -> f_lt(fl, fr) \/ f_eq(fl, fr)), E)
    ELSE IF op \in {"BangEqual", "EqualEqual"}
            /\ (both(l, r, "Boolean", "Boolean") \/ both(l, r, "StringLiteral", "StringLiteral"))
    THEN EvOk(Boolean(IF op = "EqualEqual" THEN l = r ELSE l # r), E)
    ELSE EvErr(<<"lhs is", l, "rhs is", r, "cannot compare using", op>>, E)

\* a while loop still running after MaxIterations iterations
EvUnfinished(E) == [status |-> "Unfinished", E |-> E]

\* most iterations of one execution of a While statement that are followed
MaxIterations == 4

RECURSIVE visit_expr(_, _), visit_statement(_, _), execute_block_loop(_, _, _, _)
RECURSIVE visit_logical(_, _), visit_if(_, _), visit_while(_, _, _)

\* the Unary arm of visit_expr once the operator is known: result is the
\* operand's value
unary_value(operator, result, E) ==
    IF operator = "Bang"
    THEN IF result.t = "Boolean" THEN EvOk(Boolean(~result.b), E)
         ELSE EvErr(<<"Bang operator received non-boolean expression:", result>>, E)
    ELSE IF result.t = "Float" THEN EvOk(f_neg(result), E)
    ELSE IF result.t = "Integer" THEN EvOk(Integer(-result.i), E)
    ELSE EvErr(<<"Unary subtract operator received non-number expression:", result>>, E)

\* Visitor::visit_expr for ExprEvaluator. The match in runtime.rs has no arm
\* for Expr::Logical, which the parser builds; that arm is visit_logical.
visit_expr(E, e) ==
    CASE e.t = "Assign" ->
            The({ IF result.status # "Ok" THEN result
                  ELSE LET a == assign_variable(result.E, e.token.lexeme, result.v)
                           A == [a.E EXCEPT !.assigns =
                                    Append(@, call_record(result.E, a, e.token.lexeme)
                                              @@ [object |-> result.v])]
                       IN IF a.status # "Ok" THEN [a EXCEPT !.E = A] ELSE EvOk(result.v, A)
                  : result \in {visit_expr(E, e.value)} })
      [] e.t = "Variable" ->
            LET g == get_variable(E, e.token.lexeme) IN
            [g EXCEPT !.E.gets = Append(@, call_record(E, g, e.token.lexeme))]
      [] e.t = "BoolLiteral" -> EvOk(Boolean(e.b), E)
      [] e.t = "StringLiteral" -> EvOk(StringObject(e.n), E)
      [] e.t = "IntegerLiteral" ->
            IF parse_i64_ok(e.n) THEN EvOk(Integer(digits_value(e.n)), E)
            ELSE EvPanic("called Result::unwrap() on an Err value", E)
      [] e.t = "FloatLiteral" ->
            IF parse_f64_ok(e.n) THEN EvOk(parse_f64(e.n), E)
            ELSE EvPanic("called Result::unwrap() on an Err value", E)
      [] e.t = "Operator" ->
            EvErr(<<"Received operator", e.token_type, e.lexeme, "outside of expression">>, E)
      [] e.t = "Unary" ->
            LET op == operator_from_expression(e.op, E) IN
            IF op.status # "Ok" THEN op
            ELSE IF op.v \notin {"Bang", "Subtract"}
            THEN EvErr(<<"Invalid unary opeartor", op.v>>, E)
            ELSE The({ IF result.status # "Ok" THEN result
                       ELSE unary_value(op.v, result.v, result.E)
                       : result \in {visit_expr(E, e.r)} })
      [] e.t = "Binary" ->
            LET op == operator_from_expression(e.op, E) IN
            IF op.status # "Ok" THEN op
            ELSE IF op.v \in {"Bang", "Equal"}
            THEN EvErr(<<"Invalid inline opeartor", op.v>>, E)
            ELSE The({
                IF lhs_value.status # "Ok" THEN lhs_value
                ELSE The({
                    IF rhs_value.status # "Ok" THEN rhs_value
                    ELSE IF op.v \in {"Add", "Subtract", "Multiply", "Divide"}
                    THEN arithmetic(op.v, lhs_value.v, rhs_value.v, rhs_value.E)
                    ELSE compare(op.v, lhs_value.v, rhs_value.v, rhs_value.E)
                    : rhs_value \in {visit_expr(lhs_value.E, e.r)} })
                : lhs_value \in {visit_expr(E, e.l)} })
      [] e.t = "Grouping" -> visit_expr(E, e.e)
      [] e.t = "Logical" -> visit_logical(E, e)

\* The arm of Expr::Logical, from the specification (4.3, Expression
\* semantics and Truthiness): l is evaluated; Or returns l when it is
\* Boolean(true) and And returns l when it is Boolean(false), without
\* evaluating r; otherwise r is evaluated and returned. A left operand that is
\* not a Boolean is a type error.
visit_logical(E, e) ==
    The({ IF l.status # "Ok" THEN l
          ELSE IF l.v.t # "Boolean"
          THEN EvErr(<<"Logical operator received non-boolean expression:", l.v>>, l.E)
          ELSE IF (e.token_type = "Or") = l.v.b THEN l
          ELSE visit_expr(l.E, e.r)
          : l \in {visit_expr(E, e.l)} })

\* the scope stack after `self.environments.pop()`
pop_environment(environments) == SubSeq(environments, 1, Len(environments) - 1)

\* the error arm of execute_block returning the error without the pop
block_statement_result_no_pop(r) == r

\* the body of the loop of execute_block on a statement's Result r: Ok goes on
\* (r itself is returned here, the loop takes its value and evaluator), an
\* error pops the scope and is returned
block_statement_result(r) ==
    IF r.status = "Err" THEN [r EXCEPT !.E.environments = pop_environment(@)] ELSE r

\* ExprEvaluator::execute_block after the push: the loop over the statements
\* from index k on, and the pop at the end
execute_block_loop(E, stmts, k, last_value) ==
    IF k > Len(stmts)
    THEN EvOk(last_value, [E EXCEPT !.environments = pop_environment(@)])
    ELSE The({ IF r.status = "Ok" THEN execute_block_loop(r.E, stmts, k + 1, r.v)
               ELSE block_statement_result(r)
               : r \in {visit_statement(E, stmts[k])} })

\* the record of a returned execute_block: the scope counts at entry and exit
block_record(E, r) ==
    [before |-> Len(E.environments), after |-> Len(r.E.environments), status |-> r.status]

\* ExprEvaluator::execute_block
execute_block(E, stmts) ==
    The({ IF r.status \in {"Ok", "Err"}
          THEN [r EXCEPT !.E.blocks = Append(@, block_record(E, r))]
          ELSE r
          : r \in {execute_block_loop([E EXCEPT !.environments = Append(@, EmptyMap)],
                                      stmts, 1, Nil)} })

\* fmt::Display for i64, as a string of characters
RECURSIVE nat_digits(_)
nat_digits(n) ==
    IF n < 10 THEN <<CHOOSE ch \in Digits : digit_value(ch) = n>>
    ELSE Append(nat_digits(n \div 10), CHOOSE ch \in Digits : digit_value(ch) = n % 10)

int_digits(i) == IF i < 0 THEN <<"-">> \o nat_digits(-i) ELSE nat_digits(i)

\* stringify. A Float that is a whole number prints as that number; one that
\* is not is kept as the pair of its fraction (its decimal digits are not
\* modelled), and the specials print as Rust prints them.
stringify(obj) ==
    CASE obj.t = "Nil" -> <<"n", "i", "l">>
      [] obj.t = "Float" ->
            IF obj.den = 1 THEN int_digits(obj.num)
            ELSE IF obj.den = 0
            THEN (IF obj.num = 0 THEN <<"N", "a", "N">>
                  ELSE IF obj.num > 0 THEN <<"i", "n", "f">> ELSE <<"-", "i", "n", "f">>)
            ELSE <<"fraction", obj.num, obj.den>>
      [] obj.t = "Integer" -> int_digits(obj.i)
      [] obj.t = "Boolean" -> IF obj.b THEN <<"t", "r", "u", "e">> ELSE <<"f", "a", "l", "s", "e">>
      [] obj.t = "StringLiteral" -> obj.n

\* Visitor::visit_statement for ExprEvaluator. The match in runtime.rs has no
\* arm for Statement::If and Statement::While, which the parser builds; those
\* arms are visit_if and visit_while.
visit_statement(E, s) ==
    CASE s.t = "Expression" -> visit_expr(E, s.e)
      [] s.t = "Print" ->
            The({ IF result.status # "Ok" THEN result
                  ELSE EvOk(result.v, [result.E EXCEPT !.output = Append(@, stringify(result.v))])
                  : result \in {visit_expr(E, s.e)} })
      [] s.t = "Var" ->
            The({ IF value.status # "Ok" THEN value
                  ELSE LET D == define_variable(value.E, s.token.lexeme, value.v) IN
                       EvOk(Nil, [D EXCEPT !.defines =
                                    Append(@, define_record(value.E, D, s.token.lexeme, value.v))])
                  : value \in {IF s.initializer # None THEN visit_expr(E, s.initializer)
                               ELSE EvOk(Nil, E)} })
      [] s.t = "Block" ->
            The({ IF r.status # "Ok" THEN r ELSE EvOk(Nil, r.E)
                  : r \in {execute_block(E, s.stmts)} })
      [] s.t = "If" -> visit_if(E, s)
      [] s.t = "While" -> visit_while(E, s, 0)

\* The arm of Statement::If, from the specification (4.3, Statement
\* semantics): the condition is evaluated; on Boolean(true) the then branch is
\* executed, on Boolean(false) the else branch when there is one. A condition
\* that is not a Boolean is a type error.
visit_if(E, s) ==
    The({ IF c.status # "Ok" THEN c
          ELSE IF c.v.t # "Boolean"
          THEN EvErr(<<"If condition is a non-boolean expression:", c.v>>, c.E)
          ELSE IF c.v.b
          THEN The({ IF r.status # "Ok" THEN r ELSE EvOk(Nil, r.E)
                     : r \in {visit_statement(c.E, s.then)} })
          ELSE IF s.else # None
          THEN The({ IF r.status # "Ok" THEN r ELSE EvOk(Nil, r.E)
                     : r \in {visit_statement(c.E, s.else)} })
          ELSE EvOk(Nil, c.E)
          : c \in {visit_expr(E, s.c)} })

\* The arm of Statement::While, from the specification (4.3, Statement
\* semantics), after n iterations: the condition is evaluated before each
\* iteration and the body is executed while it is Boolean(true). A condition
\* that is not a Boolean is a type error.
visit_while(E, s, n) ==
    IF n >= MaxIterations THEN EvUnfinished(E)
    ELSE The({ IF c.status # "Ok" THEN c
               ELSE IF c.v.t # "Boolean"
               THEN EvErr(<<"While condition is a non-boolean expression:", c.v>>, c.E)
               ELSE IF ~c.v.b THEN EvOk(Nil, c.E)
               ELSE The({ IF r.status # "Ok" THEN r ELSE visit_while(r.E, s, n + 1)
                          : r \in {visit_statement(c.E, s.body)} })
               : c \in {visit_expr(E, s.c)} })

----------------------------------------------------------------------------
\* scan_tokens as a state machine: one action per iteration of its loop

\* the characters the scanner specification builds its sources from
ScanAlphabet == {"DQ", "/", "NL", " ", "1", ".", "o", "=", "@", "EURO"}

RECURSIVE SeqsUpTo(_, _)
\* every sequence over S of length at most n
SeqsUpTo(S, n) ==
    IF n = 0 THEN {<<>>}
    ELSE LET shorter == SeqsUpTo(S, n - 1) IN
         shorter \cup {Append(s, x) : s \in {t \in shorter : Len(t) = n - 1}, x \in S}

\* the parser and the evaluator before they are constructed
ParseIdle ==
    /\ parser = NewParser
    /\ statements = <<>>
    /\ parse_pc = "idle"
    /\ parse_error = None

EvalIdle ==
    /\ evaluator = build_interpreter
    /\ eval_index = 1
    /\ eval_pc = "idle"
    /\ eval_result = None

ScanInit ==
    /\ source \in SeqsUpTo(ScanAlphabet, MaxSourceLen)
    /\ scanner = NewScanner
    /\ tokens = <<>>
    /\ scan_pc = "scanning"
    /\ ParseIdle
    /\ EvalIdle

\* an iteration of `while let Some(token) = scanner.scan_token()`
ScanToken ==
    /\ scan_pc = "scanning"
    /\ scanner.pos < Len(source)
    /\ LET r == scan_token(source, scanner) IN
        /\ scanner' = r.S
        /\ tokens' = Append(tokens, r.token)
    /\ UNCHANGED <<source, scan_pc, parse_vars, eval_vars>>

\* the same iteration in a build with overflow checks, when the column
\* subtraction underflows: the thread panics and scan_tokens never returns
ScanTokenPanic ==
    /\ scan_pc = "scanning"
    /\ scanner.pos < Len(source)
    /\ column_underflow(classified(source, scanner).S)
    /\ scan_pc' = "panic"
    /\ UNCHANGED <<source, scanner, tokens, parse_vars, eval_vars>>

\* the last call of scan_token, where advance returns None (and still counts
\* a column), and the push of the Eof token
ScanEof ==
    /\ scan_pc = "scanning"
    /\ scanner.pos = Len(source)
    /\ scanner' = advance(source, scanner)
    /\ tokens' = Append(tokens, eof_token(scanner'))
    /\ scan_pc' = "done"
    /\ UNCHANGED <<source, parse_vars, eval_vars>>

ScanNext == ScanToken \/ ScanTokenPanic \/ ScanEof

SpecScan == ScanInit /\ [][ScanNext]_vars

----------------------------------------------------------------------------
\* Parser::parse as a state machine: one action per iteration of its loop

\* `self.advance()` at the start of parse(), on the token list scan_tokens
\* returned or the caller built
ParseStart ==
    /\ scan_pc = "done"
    /\ parse_pc = "idle"
    /\ parser' = parser_advance(tokens, parser)
    /\ parse_pc' = "loop"
    /\ UNCHANGED <<scan_vars, statements, parse_error, eval_vars>>

\* the iteration returning the error with the statements parsed so far kept
ParseDeclarationKeepsStatements ==
    /\ parse_pc = "loop"
    /\ ~is_at_end(tokens, parser)
    /\ \E d \in {declaration(tokens, parser)} :
        /\ parser' = d.P
        /\ statements' = IF d.ok THEN Append(statements, d.v) ELSE statements
        /\ parse_pc' = IF d.ok THEN "loop" ELSE "err"
        /\ parse_error' = IF d.ok THEN parse_error ELSE d.error
    /\ UNCHANGED <<scan_vars, eval_vars>>

\* an iteration of `while !self.is_at_end()`: `statements.push(self.declaration()?)`;
\* on Err parse() returns it and its statements are dropped
ParseDeclaration ==
    /\ parse_pc = "loop"
    /\ ~is_at_end(tokens, parser)
    /\ \E d \in {declaration(tokens, parser)} :
        /\ parser' = d.P
        /\ statements' = IF d.ok THEN Append(statements, d.v) ELSE <<>>
        /\ parse_pc' = IF d.ok THEN "loop" ELSE "err"
        /\ parse_error' = IF d.ok THEN parse_error ELSE d.error
    /\ UNCHANGED <<scan_vars, eval_vars>>

\* `return Ok(statements)`
ParseReturn ==
    /\ parse_pc = "loop"
    /\ is_at_end(tokens, parser)
    /\ parse_pc' = "ok"
    /\ UNCHANGED <<scan_vars, parser, statements, parse_error, eval_vars>>

ParseNext == ParseStart \/ ParseDeclaration \/ ParseReturn

----------------------------------------------------------------------------
\* ExprEvaluator::interpret as a state machine: one action per iteration

\* the loop of interpret() ending at the first Err
after_statement_stop_on_error(status) ==
    CASE status = "Ok" -> "running"
      [] status = "Err" -> "stopped"
      [] status = "Panic" -> "panic"
      [] status = "Unfinished" -> "looping"

\* where the loop of interpret() stands after a statement's Result: both arms
\* of `match result` fall through to the next iteration
after_statement(status) ==
    CASE status \in {"Ok", "Err"} -> "running"
      [] status = "Panic" -> "panic"
      [] status = "Unfinished" -> "looping"

\* an iteration of `for statement in statements.iter()`: the statement is
\* visited and an Err is printed; a panic ends the thread
InterpretStatement ==
    /\ parse_pc = "ok"
    /\ eval_pc \in {"idle", "running"}
    /\ eval_index <= Len(statements)
    /\ \E r \in {visit_statement(evaluator, statements[eval_index])} :
        /\ evaluator' = IF r.status = "Err"
                        THEN [r.E EXCEPT !.output = Append(@, <<"Error evaluating: ", r.message>>)]
                        ELSE r.E
        /\ eval_result' = [x \in DOMAIN r \ {"E"} |-> r[x]]
        /\ eval_pc' = after_statement(r.status)
    /\ eval_index' = eval_index + 1
    /\ UNCHANGED <<scan_vars, parse_vars>>

\* the end of the loop of interpret()
InterpretReturn ==
    /\ parse_pc = "ok"
    /\ eval_pc \in {"idle", "running"}
    /\ eval_index > Len(statements)
    /\ eval_pc' = "done"
    /\ UNCHANGED <<scan_vars, parse_vars, evaluator, eval_index, eval_result>>

InterpretNext == InterpretStatement \/ InterpretReturn

----------------------------------------------------------------------------
\* The token lists the parser specification starts from

\* longest token list (before its Eof) enumerated over TokenAlphabet
MaxTokens == 3

RECURSIVE lexemes_length(_)
lexemes_length(pairs) ==
    IF pairs = <<>> THEN 0 ELSE Len(Head(pairs)[2]) + lexemes_length(Tail(pairs))

\* the tokens of kinds and lexemes `pairs`, written one after the other on line 1
place(pairs) ==
    [i \in 1..Len(pairs) |->
        [token_type |-> pairs[i][1], lexeme |-> pairs[i][2],
         line_number |-> 1, column_number |-> lexemes_length(SubSeq(pairs, 1, i - 1))]]

EofPair == <<"Eof", <<>>>>
SemicolonPair == <<"Semicolon", <<";">>>>
LeftParenPair == <<"LeftParen", <<"(">>>>
RightParenPair == <<"RightParen", <<")">>>>

\* every operator of the binary, logical and assignment levels
OperatorPairs ==
    {<<"BangEqual", <<"!", "=">>>>, <<"EqualEqual", <<"=", "=">>>>,
     <<"Greater", <<">">>>>, <<"GreaterEqual", <<">", "=">>>>,
     <<"Less", <<"<">>>>, <<"LessEqual", <<"<", "=">>>>,
     <<"Minus", <<"-">>>>, <<"Plus", <<"+">>>>,
     <<"Slash", <<"/">>>>, <<"Star", <<"*">>>>,
     <<"Or", <<"o", "r">>>>, <<"And", <<"a", "n", "d">>>>,
     <<"Equal", <<"=">>>>}

FirstOperands == {<<"Integer", <<"1">>>>, <<"Identifier", <<"x">>>>, <<"True", <<"t", "r", "u", "e">>>>}
SecondOperands == {<<"Integer", <<"2">>>>, <<"Identifier", <<"y">>>>}
ThirdOperands == {<<"Integer", <<"3">>>>}

UnaryPairs == {<<"Minus", <<"-">>>>, <<"Bang", <<"!">>>>}

\* `a op1 b op2 c ;`, `( a op1 b ) op2 c ;` and `a op1 ( b op2 c ) ;`
TernaryInputs ==
    UNION {
        { place(<<a, op1, b, op2, c, SemicolonPair, EofPair>>),
          place(<<LeftParenPair, a, op1, b, RightParenPair, op2, c, SemicolonPair, EofPair>>),
          place(<<a, op1, LeftParenPair, b, op2, c, RightParenPair, SemicolonPair, EofPair>>) }
        : a \in FirstOperands, op1 \in OperatorPairs, b \in SecondOperands,
          op2 \in OperatorPairs, c \in ThirdOperands }

\* `u a op b ;`, `( a ) op b ;` and `a op b ;`
BinaryInputs ==
    UNION {
        { place(<<u, a, op, b, SemicolonPair, EofPair>>),
          place(<<LeftParenPair, a, RightParenPair, op, b, SemicolonPair, EofPair>>),
          place(<<a, op, b, SemicolonPair, EofPair>>) }
        : u \in UnaryPairs, a \in FirstOperands, op \in OperatorPairs, b \in SecondOperands }

ExpressionInputs == TernaryInputs \cup BinaryInputs

\* the tokens the short lists are made of; no rule accepts Class
TokenAlphabet ==
    {<<"Integer", <<"1">>>>, <<"Identifier", <<"x">>>>, <<"Equal", <<"=">>>>,
     <<"Minus", <<"-">>>>, LeftParenPair, RightParenPair, SemicolonPair,
     <<"Class", <<"c", "l", "a", "s", "s">>>>}

\* every list of at most MaxTokens tokens, with and without its Eof
ShortInputs ==
    UNION { {place(s), place(Append(s, EofPair))} : s \in SeqsUpTo(TokenAlphabet, MaxTokens) }

\* the tokens of blocks: the braces and a token no rule accepts
BlockAlphabet ==
    {<<"LeftBrace", <<"{">>>>, <<"RightBrace", <<"}">>>>, <<"Class", <<"c", "l", "a", "s", "s">>>>}

\* every list of blocks' tokens one longer than the short inputs, with and
\* without its Eof
BlockInputs ==
    UNION { {place(s), place(Append(s, EofPair))} : s \in SeqsUpTo(BlockAlphabet, MaxTokens + 1) }

ParseInit ==
    /\ source = <<>>
    /\ scanner = NewScanner
    /\ tokens \in ExpressionInputs \cup ShortInputs \cup BlockInputs
    /\ scan_pc = "done"
    /\ ParseIdle
    /\ EvalIdle

SpecParse == ParseInit /\ [][ParseNext \/ InterpretNext]_vars

\* the tokens of statements: `1 ;`, a grouping and a token no rule accepts
StatementAlphabet ==
    {<<"Integer", <<"1">>>>, SemicolonPair, LeftParenPair, RightParenPair,
     <<"Class", <<"c", "l", "a", "s", "s">>>>}

StatementInputs ==
    UNION { {place(s), place(Append(s, EofPair))} : s \in SeqsUpTo(StatementAlphabet, MaxTokens) }

ParseFairInit ==
    /\ source = <<>>
    /\ scanner = NewScanner
    /\ tokens \in StatementInputs \cup BlockInputs
    /\ scan_pc = "done"
    /\ ParseIdle
    /\ EvalIdle

\* parse() alone, a sequential loop that is run to its return
SpecParseFair == ParseFairInit /\ [][ParseNext]_vars /\ WF_vars(ParseNext)

----------------------------------------------------------------------------
\* The programs the evaluator specification starts from, as token lists:
\* an optional `var x = 1;`, a block, an optional `{ var x = 5; }`, and `print x;`

\* deepest nesting of blocks in a program
MaxDepth == 2

LeftBracePair == <<"LeftBrace", <<"{">>>>
RightBracePair == <<"RightBrace", <<"}">>>>
VarPair == <<"Var", <<"v", "a", "r">>>>
PrintPair == <<"Print", <<"p", "r", "i", "n", "t">>>>
EqualPair == <<"Equal", <<"=">>>>
XPair == <<"Identifier", <<"x">>>>
ZPair == <<"Identifier", <<"z">>>>

\* `var x = n ;`
var_x(n) == <<VarPair, XPair, EqualPair, <<"Integer", <<n>>>>, SemicolonPair>>
\* `x = n ;`
assign_x(n) == <<XPair, EqualPair, <<"Integer", <<n>>>>, SemicolonPair>>
\* `z ;`, a runtime error: z is never defined
undefined_z == <<ZPair, SemicolonPair>>
\* `print x ;`
print_x == <<PrintPair, XPair, SemicolonPair>>

\* what a block starts with, and what it ends with
BlockPrefixes == {<<>>, var_x("2"), var_x("2") \o var_x("3"), assign_x("4"), undefined_z}
BlockSuffixes == {<<>>, print_x, undefined_z}

RECURSIVE BlockPairs(_)
\* the blocks nested at most d deep: `{ prefix block? suffix }`
BlockPairs(d) ==
    IF d = 0 THEN {}
    ELSE { <<LeftBracePair>> \o pre \o inner \o post \o <<RightBracePair>>
           : pre \in BlockPrefixes, inner \in {<<>>} \cup BlockPairs(d - 1), post \in BlockSuffixes }

ProgramInputs ==
    { place(top \o b \o last \o print_x \o <<EofPair>>)
      : top \in {<<>>, var_x("1")}, b \in BlockPairs(MaxDepth),
        last \in {<<>>, <<LeftBracePair>> \o var_x("5") \o <<RightBracePair>>} }

\* `print x = n ;`
print_assign_x(n) == <<PrintPair, XPair, EqualPair, <<"Integer", <<n>>>>, SemicolonPair>>

\* `{ var x = 1; { var x = 2; print x; } print x; }`
ShadowGetProgram ==
    place(<<LeftBracePair>> \o var_x("1") \o <<LeftBracePair>> \o var_x("2") \o print_x
          \o <<RightBracePair>> \o print_x \o <<RightBracePair, EofPair>>)

\* `var x = 1; print x = 4; print x;`
PrintAssignProgram == place(var_x("1") \o print_assign_x("4") \o print_x \o <<EofPair>>)

\* `99999999999999999999; print x;`, a literal of 20 digits
BigLiteralProgram ==
    place(<<<<"Integer", [i \in 1..20 |-> "9"]>>, SemicolonPair>> \o print_x \o <<EofPair>>)

\* `l / r ;`
divide(l, r) == <<<<"Integer", <<l>>>>, <<"Slash", <<"/">>>>, <<"Integer", <<r>>>>, SemicolonPair>>

\* `7 / 2; 1 / 0; 0 / 0;`
DivisionProgram == place(divide("7", "2") \o divide("1", "0") \o divide("0", "0") \o <<EofPair>>)

TruePair == <<"True", <<"t", "r", "u", "e">>>>
FalsePair == <<"False", <<"f", "a", "l", "s", "e">>>>
AndPair == <<"And", <<"a", "n", "d">>>>
OrPair == <<"Or", <<"o", "r">>>>

\* `var x = 1; print l op (x = 4); print x;`
LogicalProgram(l, op) ==
    place(var_x("1")
          \o <<PrintPair, l, op, LeftParenPair, XPair, EqualPair, <<"Integer", <<"4">>>>,
               RightParenPair, SemicolonPair>>
          \o print_x \o <<EofPair>>)

LogicalPrograms == {LogicalProgram(l, op) : l \in {TruePair, FalsePair}, op \in {AndPair, OrPair}}

IPair == <<"Identifier", <<"i">>>>
\* `i < 3`
i_less_3 == <<IPair, <<"Less", <<"<">>>>, <<"Integer", <<"3">>>>>>
\* `i = i + 1`
i_plus_1 == <<IPair, EqualPair, IPair, <<"Plus", <<"+">>>>, <<"Integer", <<"1">>>>>>
\* `var i = 0`
var_i_0 == <<VarPair, IPair, EqualPair, <<"Integer", <<"0">>>>>>
\* `print i ;`
print_i == <<PrintPair, IPair, SemicolonPair>>
\* `print n ;`
print_n(n) == <<PrintPair, <<"Integer", <<n>>>>, SemicolonPair>>

\* `var i = 0; while (i < 3) { print i; i = i + 1; }`
WhileProgram ==
    place(var_i_0 \o <<SemicolonPair, <<"While", <<"w", "h", "i", "l", "e">>>>, LeftParenPair>>
          \o i_less_3 \o <<RightParenPair, LeftBracePair>> \o print_i \o i_plus_1
          \o <<SemicolonPair, RightBracePair, EofPair>>)

\* `for (var i = 0; i < 3; i = i + 1) print i;`
ForProgram ==
    place(<<<<"For", <<"f", "o", "r">>>>, LeftParenPair>> \o var_i_0 \o <<SemicolonPair>>
          \o i_less_3 \o <<SemicolonPair>> \o i_plus_1 \o <<RightParenPair>> \o print_i
          \o <<EofPair>>)

\* `if (c) print 1; else print 2; print 3;`, and the same without the else
IfProgram(c, with_else) ==
    place(<<<<"If", <<"i", "f">>>>, LeftParenPair, c, RightParenPair>> \o print_n("1")
          \o (IF with_else THEN <<<<"Else", <<"e", "l", "s", "e">>>>>> \o print_n("2") ELSE <<>>)
          \o print_n("3") \o <<EofPair>>)

\* the ways a for statement is written: its initializer clause, and the
\* delimiter left out of it
ForInitializers == {"none", "var", "expr"}
ForMissing == {"nothing", "Semicolon", "RightParen"}

ForPair == <<"For", <<"f", "o", "r">>>>
\* `i = 0`
i_assign_0 == <<IPair, EqualPair, <<"Integer", <<"0">>>>>>
\* `var i = 5`
var_i_5 == <<VarPair, IPair, EqualPair, <<"Integer", <<"5">>>>>>

\* `for (init; cond; step) print i;` with i declared before the loop when the
\* initializer does not declare it: init is nothing, `var i = 0` or `i = 0`,
\* cond is `i < 3` or nothing, step is `i = i + 1` or nothing, and the `;`
\* after the condition or the `)` may be missing
ForLoop(init, cond, step, missing) ==
    place((CASE init = "none" -> var_i_0 \o <<SemicolonPair>>
             [] init = "expr" -> var_i_5 \o <<SemicolonPair>>
             [] init = "var" -> <<>>)
          \o <<ForPair, LeftParenPair>>
          \o (CASE init = "none" -> <<>>
                [] init = "expr" -> i_assign_0
                [] init = "var" -> var_i_0)
          \o <<SemicolonPair>>
          \o (IF cond THEN i_less_3 ELSE <<>>)
          \o (IF missing = "Semicolon" THEN <<>> ELSE <<SemicolonPair>>)
          \o (IF step THEN i_plus_1 ELSE <<>>)
          \o (IF missing = "RightParen" THEN <<>> ELSE <<RightParenPair>>)
          \o print_i \o <<EofPair>>)

ForLoops ==
    {ForLoop(init, cond, step, missing) :
        init \in ForInitializers, cond \in BOOLEAN, step \in BOOLEAN, missing \in ForMissing}

ControlPrograms ==
    {WhileProgram, ForProgram} \cup ForLoops
    \cup {IfProgram(c, with_else) : c \in {TruePair, FalsePair}, with_else \in BOOLEAN}

\* programs outside the family above
ExtraPrograms ==
    {ShadowGetProgram, PrintAssignProgram, BigLiteralProgram, DivisionProgram}
    \cup LogicalPrograms \cup ControlPrograms

EvalInit ==
    /\ source = <<>>
    /\ scanner = NewScanner
    /\ tokens \in ProgramInputs \cup ExtraPrograms
    /\ scan_pc = "done"
    /\ ParseIdle
    /\ EvalIdle

SpecEval == EvalInit /\ [][ParseNext \/ InterpretNext]_vars

----------------------------------------------------------------------------
\* The pipeline from a source string: scan_tokens, then Parser::parse on the
\* tokens it returned. run() of src/src/main.rs takes the tokens from
\* scan_tokens as they are (it prints them); nothing in the sources removes a
\* token between the scanner and the parser.

\* longest source string the pipeline specification enumerates
MaxPipeLen == 4

\* the characters the pipeline specification builds its sources from
PipeAlphabet == {"DQ", "x", "1", ";", " ", "=", "/", "NL", "EURO"}

PipeInit ==
    /\ source \in SeqsUpTo(PipeAlphabet, MaxPipeLen)
    /\ scanner = NewScanner
    /\ tokens = <<>>
    /\ scan_pc = "scanning"
    /\ ParseIdle
    /\ EvalIdle

SpecPipe == PipeInit /\ [][ScanNext \/ ParseNext]_vars

----------------------------------------------------------------------------
\* Scanner claims

RECURSIVE concat_lexemes(_)
\* the lexemes of a token sequence, concatenated in order
concat_lexemes(toks) ==
    IF toks = <<>> THEN <<>> ELSE Head(toks).lexeme \o concat_lexemes(Tail(toks))

\* the number of characters of src before the token at index i of toks
offset_of(toks, i) == Len(concat_lexemes(SubSeq(toks, 1, i - 1)))

\* 1-based line of the character of src at 0-based offset off
true_line(src, off) == 1 + Cardinality({k \in 1..off : src[k] = "NL"})

\* 0-based column of the character of src at 0-based offset off: the
\* characters between it and the last line feed before it
true_column(src, off) ==
    LET nls == {k \in 1..off : src[k] = "NL"} IN
    IF nls = {} THEN off ELSE off - (CHOOSE k \in nls : \A j \in nls : j <= k)

eof_count(toks) == Cardinality({i \in 1..Len(toks) : toks[i].token_type = "Eof"})

\* C1: scan_tokens returns for every source (it never panics), the sequence it
\* returns holds exactly one Eof token, its last element, and a character that
\* starts no other token yields an Unknown token whose lexeme is that character.
C1_ScanTotalOneEof ==
    /\ scan_pc # "panic"
    /\ scan_pc = "done" =>
        /\ eof_count(tokens) = 1
        /\ tokens[Len(tokens)].token_type = "Eof"
    /\ \A i \in 1..Len(tokens) :
        tokens[i].token_type = "Unknown" =>
            /\ Len(tokens[i].lexeme) = 1
            /\ tokens[i].lexeme[1] \notin {"DQ", "/", "NL", " ", ".", "="}
            /\ ~is_digit(tokens[i].lexeme[1])
            /\ ~is_alphabetic(tokens[i].lexeme[1])

\* C2: the lexemes of the tokens scanned so far, then the characters of the
\* token being built, are the characters consumed so far, in order; so the
\* lexemes of the returned tokens concatenate to the source.
C2_LexemesReconstructSource ==
    /\ concat_lexemes(tokens) \o scanner.lexeme = SubSeq(source, 1, scanner.pos)
    /\ scan_pc = "done" => concat_lexemes(tokens) = source

\* a scan that returned several tokens, one of them longer than a character
C2_Witness ==
    /\ scan_pc = "done"
    /\ Len(tokens) >= 3
    /\ \E i \in 1..Len(tokens) :
        tokens[i].token_type \in {"Str", "Comment", "Float"} /\ Len(tokens[i].lexeme) >= 2

\* C3: every token but Eof carries the 1-based line and the 0-based column of
\* the first character of its lexeme.
C3_TokenPositions ==
    \A i \in 1..Len(tokens) :
        tokens[i].token_type # "Eof" =>
            /\ tokens[i].line_number = true_line(source, offset_of(tokens, i))
            /\ tokens[i].column_number = true_column(source, offset_of(tokens, i))

----------------------------------------------------------------------------
\* Parser claims

\* the precedence level of an operator token, lowest first
Level(token_type) ==
    CASE token_type = "Equal" -> 1
      [] token_type = "Or" -> 2
      [] token_type = "And" -> 3
      [] token_type \in {"BangEqual", "EqualEqual"} -> 4
      [] token_type \in {"Greater", "GreaterEqual", "Less", "LessEqual"} -> 5
      [] token_type \in {"Minus", "Plus"} -> 6
      [] token_type \in {"Slash", "Star"} -> 7
      [] OTHER -> 0

IsOperand(tok) == tok.token_type \in {"Integer", "Identifier", "True"}

\* the expression an operand token stands for
OperandExpr(tok) ==
    CASE tok.token_type = "Integer" -> IntegerLiteral(tok.lexeme)
      [] tok.token_type = "Identifier" -> Variable(tok)
      [] tok.token_type = "True" -> BoolLiteral(TRUE)

\* the node `l op r` of a binary or logical operator token
Node(l, op, r) ==
    IF op.token_type \in {"Or", "And"} THEN Logical(l, op.token_type, r)
    ELSE Binary(l, Operator(op.token_type, op.lexeme), r)

TypesOf(toks) == [i \in 1..Len(toks) |-> toks[i].token_type]

\* the token list is `a op1 b op2 c ; Eof` with two binary or logical operators
IsFlatTernary(toks) ==
    /\ Len(toks) = 7
    /\ IsOperand(toks[1]) /\ IsOperand(toks[3]) /\ IsOperand(toks[5])
    /\ Level(toks[2].token_type) >= 2 /\ Level(toks[4].token_type) >= 2
    /\ toks[6].token_type = "Semicolon" /\ toks[7].token_type = "Eof"

ParseDone == parse_pc \in {"ok", "err"}

IntegerPair(ch) == <<"Integer", <<ch>>>>

\* the tokens of `1 op1 2 op2 3 ;`
Arithmetic123(op1, op2) ==
    place(<<IntegerPair("1"), op1, IntegerPair("2"), op2, IntegerPair("3"), SemicolonPair, EofPair>>)

MinusPair == <<"Minus", <<"-">>>>
PlusPair == <<"Plus", <<"+">>>>
StarPair == <<"Star", <<"*">>>>

EvalDone == eval_pc = "done"

\* C6: two operators of one level, binary or logical, group to the left:
\* `a op1 b op2 c` parses to (a op1 b) op2 c; and `1 - 2 - 3` evaluates to
\* Integer(-4).
C6_LeftAssociative ==
    /\ (ParseDone /\ IsFlatTernary(tokens)
            /\ Level(tokens[2].token_type) = Level(tokens[4].token_type)) =>
        /\ parse_pc = "ok"
        /\ statements = <<ExpressionStmt(
                Node(Node(OperandExpr(tokens[1]), tokens[2], OperandExpr(tokens[3])),
                     tokens[4], OperandExpr(tokens[5])))>>
    /\ (EvalDone /\ tokens = Arithmetic123(MinusPair, MinusPair)) =>
        eval_result = [status |-> "Ok", v |-> Integer(-4)]

\* `1 - 2 - 3 ;` was parsed and evaluated
C6_Witness ==
    /\ EvalDone
    /\ tokens = Arithmetic123(MinusPair, MinusPair)
    /\ statements[1].e.l.t = "Binary"

\* C7: of two operators of different levels around an operand, the one of
\* the higher level takes it; a unary operator binds tighter than every
\* binary one and parentheses group whatever the levels; `=` is lowest, so a
\* binary or logical expression to its left is the (invalid) target.
\* `1 + 2 * 3` evaluates to 7 and `(1 + 2) * 3` to 9.
C7_Precedence ==
    /\ (ParseDone /\ IsFlatTernary(tokens)
            /\ Level(tokens[2].token_type) < Level(tokens[4].token_type)) =>
        /\ parse_pc = "ok"
        /\ statements = <<ExpressionStmt(
                Node(OperandExpr(tokens[1]), tokens[2],
                     Node(OperandExpr(tokens[3]), tokens[4], OperandExpr(tokens[5]))))>>
    /\ (ParseDone /\ IsFlatTernary(tokens)
            /\ Level(tokens[2].token_type) > Level(tokens[4].token_type)) =>
        /\ parse_pc = "ok"
        /\ statements = <<ExpressionStmt(
                Node(Node(OperandExpr(tokens[1]), tokens[2], OperandExpr(tokens[3])),
                     tokens[4], OperandExpr(tokens[5])))>>
    \* u a op b ;
    /\ (ParseDone /\ Len(tokens) = 6 /\ tokens[1].token_type \in {"Minus", "Bang"}
            /\ IsOperand(tokens[2]) /\ Level(tokens[3].token_type) >= 2
            /\ IsOperand(tokens[4]) /\ tokens[5].token_type = "Semicolon") =>
        /\ parse_pc = "ok"
        /\ statements = <<ExpressionStmt(
                Node(Unary(Operator(tokens[1].token_type, tokens[1].lexeme), OperandExpr(tokens[2])),
                     tokens[3], OperandExpr(tokens[4])))>>
    \* ( a op1 b ) op2 c ;
    /\ (ParseDone /\ Len(tokens) = 9 /\ tokens[1].token_type = "LeftParen"
            /\ Level(tokens[3].token_type) >= 2 /\ Level(tokens[6].token_type) >= 2) =>
        /\ parse_pc = "ok"
        /\ statements = <<ExpressionStmt(
                Node(Grouping(Node(OperandExpr(tokens[2]), tokens[3], OperandExpr(tokens[4]))),
                     tokens[6], OperandExpr(tokens[7])))>>
    \* a op1 ( b op2 c ) ;
    /\ (ParseDone /\ Len(tokens) = 9 /\ tokens[3].token_type = "LeftParen"
            /\ Level(tokens[2].token_type) >= 2 /\ Level(tokens[5].token_type) >= 2) =>
        /\ parse_pc = "ok"
        /\ statements = <<ExpressionStmt(
                Node(OperandExpr(tokens[1]), tokens[2],
                     Grouping(Node(OperandExpr(tokens[4]), tokens[5], OperandExpr(tokens[6])))))>>
    \* a op1 b = c ;
    /\ (ParseDone /\ Len(tokens) = 7 /\ IsOperand(tokens[1])
            /\ Level(tokens[2].token_type) >= 2 /\ tokens[4].token_type = "Equal") =>
        /\ parse_pc = "err"
        /\ parse_error.message = "Invalid assignment target."
    /\ (EvalDone /\ tokens = Arithmetic123(PlusPair, StarPair)) =>
        eval_result = [status |-> "Ok", v |-> Integer(7)]
    /\ (EvalDone /\ tokens = place(<<LeftParenPair, IntegerPair("1"), PlusPair, IntegerPair("2"),
                                     RightParenPair, StarPair, IntegerPair("3"),
                                     SemicolonPair, EofPair>>)) =>
        eval_result = [status |-> "Ok", v |-> Integer(9)]

\* `1 + 2 * 3 ;` was parsed and evaluated
C7_Witness ==
    /\ EvalDone
    /\ tokens = Arithmetic123(PlusPair, StarPair)
    /\ statements[1].e.r.t = "Binary"

\* the parser as parse() leaves it after its first advance
Started(toks) == parser_advance(toks, NewParser)

\* the token list starts with a left-hand expression followed by `=` and a
\* right-hand side that parses, and ends with `; Eof` right after it
IsAssignment(toks) ==
    /\ Len(toks) >= 2
    /\ toks[Len(toks)].token_type = "Eof"
    /\ LET lhs == or(toks, Started(toks)) IN
        /\ lhs.ok
        /\ check(toks, lhs.P, "Equal")
        /\ LET rhs == assignment(toks, parser_advance(toks, lhs.P)) IN
            /\ rhs.ok
            /\ check(toks, rhs.P, "Semicolon")
            /\ rhs.P.current = Len(toks) - 1

AssignmentLhs(toks) == or(toks, Started(toks))
AssignmentRhs(toks) == assignment(toks, parser_advance(toks, AssignmentLhs(toks).P))

\* C8: where `=` follows a left-hand expression (and the right-hand side
\* parses), parse() returns the one statement Assign(token, value), with the
\* identifier token itself, when the left-hand expression is a Variable, and
\* otherwise it returns the error "Invalid assignment target." and no
\* statements; `x = y = 3` is Assign(x, Assign(y, 3)).
C8_AssignmentTarget ==
    /\ (ParseDone /\ IsAssignment(tokens)) =>
        IF AssignmentLhs(tokens).v.t = "Variable"
        THEN /\ parse_pc = "ok"
             /\ tokens[1].token_type = "Identifier"
             /\ statements = <<ExpressionStmt(Assign(tokens[1], AssignmentRhs(tokens).v))>>
        ELSE /\ parse_pc = "err"
             /\ parse_error.message = "Invalid assignment target."
             /\ statements = <<>>
    /\ (ParseDone /\ Len(tokens) = 7 /\ TypesOf(tokens) =
            <<"Identifier", "Equal", "Identifier", "Equal", "Integer", "Semicolon", "Eof">>) =>
        /\ parse_pc = "ok"
        /\ statements = <<ExpressionStmt(
                Assign(tokens[1], Assign(tokens[3], IntegerLiteral(tokens[5].lexeme))))>>
    /\ (ParseDone /\ Len(tokens) >= 5 /\ SubSeq(TypesOf(tokens), 1, 4) =
            <<"LeftParen", "Identifier", "RightParen", "Equal">> /\ IsAssignment(tokens)) =>
        parse_pc = "err"

\* `( x ) = 2 ;` was refused and `x = y = 3 ;` was parsed
C8_Witness ==
    /\ parse_pc = "err"
    /\ TypesOf(tokens) = <<"LeftParen", "Identifier", "RightParen", "Equal", "Integer", "Semicolon", "Eof">>
    /\ parse_error.message = "Invalid assignment target."

----------------------------------------------------------------------------
\* Pipeline claims

\* a Str token whose lexeme has no closing quote
IsUnterminated(tok) ==
    /\ tok.token_type = "Str"
    /\ (Len(tok.lexeme) = 1 \/ tok.lexeme[Len(tok.lexeme)] # "DQ")

\* C4: a string literal never closed yields no successful parse, and the parse
\* error comes when the parser meets its token: primary does not take the
\* token as a StringLiteral expression, so the parser never goes past it and
\* the error it returns is not one about a later token.
C4_UnterminatedStringRejected ==
    \A i \in 1..Len(tokens) :
        (IsUnterminated(tokens[i]) /\ parse_pc \in {"ok", "err"}) =>
            /\ parse_pc = "err"
            /\ ~primary(tokens, [iter |-> i, current |-> i, previous |-> i - 1]).ok
            /\ parser.previous # i
            /\ parse_error.at # "at end of file"

TriviaTypes == {"Whitespace", "Newline", "Comment"}

\* the tokens that are not trivia
without_trivia(toks) == SelectSeq(toks, LAMBDA tok : tok.token_type \notin TriviaTypes)

\* a token list without the positions of its tokens
KindsAndLexemes(toks) == [i \in 1..Len(toks) |-> <<toks[i].token_type, toks[i].lexeme>>]

RECURSIVE ErasePositions(_), EraseAllPositions(_)
\* an expression or statement with the line and column of every token in it
\* set to 0
ErasePositions(x) ==
    CASE x.t \in {"Variable"} ->
            [x EXCEPT !.token.line_number = 0, !.token.column_number = 0]
      [] x.t = "Assign" ->
            [x EXCEPT !.token.line_number = 0, !.token.column_number = 0,
                      !.value = ErasePositions(@)]
      [] x.t = "Var" ->
            [x EXCEPT !.token.line_number = 0, !.token.column_number = 0,
                      !.initializer = ErasePositions(@)]
      [] x.t \in {"Binary", "Logical"} ->
            [x EXCEPT !.l = ErasePositions(@), !.r = ErasePositions(@)]
      [] x.t = "Unary" -> [x EXCEPT !.r = ErasePositions(@)]
      [] x.t \in {"Grouping", "Expression", "Print"} -> [x EXCEPT !.e = ErasePositions(@)]
      [] x.t = "If" -> [x EXCEPT !.c = ErasePositions(@), !.then = ErasePositions(@),
                                 !.else = ErasePositions(@)]
      [] x.t = "While" -> [x EXCEPT !.c = ErasePositions(@), !.body = ErasePositions(@)]
      [] x.t = "Block" -> [x EXCEPT !.stmts = EraseAllPositions(@)]
      [] OTHER -> x

\* the same for a list of statements
EraseAllPositions(xs) == [i \in 1..Len(xs) |-> ErasePositions(xs[i])]

\* the source without its trivia: the lexemes of its other tokens
Program(toks) == concat_lexemes(without_trivia(toks))

\* the source is a valid program with spaces, newlines or comments added
\* between its tokens
IsProgramWithTrivia(toks) ==
    /\ \E i \in 1..Len(toks) : toks[i].token_type \in TriviaTypes
    /\ Program(toks) # <<>>
    /\ KindsAndLexemes(scan_tokens(Program(toks))) = KindsAndLexemes(without_trivia(toks))
    /\ parse(scan_tokens(Program(toks))).ok

\* C5: a valid program with spaces, newlines or comments added between its
\* tokens parses to the statements of the program without them.
C5_TriviaIgnored ==
    (parse_pc \in {"ok", "err"} /\ IsProgramWithTrivia(tokens)) =>
        /\ parse_pc = "ok"
        /\ EraseAllPositions(statements)
                = EraseAllPositions(parse(scan_tokens(Program(tokens))).v)

----------------------------------------------------------------------------
\* Evaluator claims

\* C9: every execute_block that returned, with Ok or with a runtime error and
\* at any depth, left as many scopes as it found; after every completed
\* top-level statement the stack holds the global scope alone.
C9_BlockRestoresScopes ==
    /\ \A i \in 1..Len(evaluator.blocks) :
            evaluator.blocks[i].after = evaluator.blocks[i].before
    /\ eval_pc \in {"idle", "running", "done"} => Len(evaluator.environments) = 1

\* a block nested in a block has returned an error, and a block has returned Ok
C9_Witness ==
    /\ eval_pc = "done"
    /\ \E i \in 1..Len(evaluator.blocks) :
            evaluator.blocks[i].status = "Err" /\ evaluator.blocks[i].before >= 2
    /\ \E i \in 1..Len(evaluator.blocks) : evaluator.blocks[i].status = "Ok"

\* `var x = 1; { var x = 2; var x = 3; print x; } print x;`
ShadowProgram ==
    place(var_x("1") \o <<LeftBracePair>> \o var_x("2") \o var_x("3") \o print_x
          \o <<RightBracePair>> \o print_x \o <<EofPair>>)

\* the call recorded in d changed the innermost scope at d.name and nothing else
DefineFrame(d) ==
    LET k == Len(d.before) IN
    /\ Len(d.after) = k
    /\ \A j \in 1..(k - 1) : d.after[j] = d.before[j]
    /\ DOMAIN d.after[k] = DOMAIN d.before[k] \cup {d.name}
    /\ d.after[k][d.name] = d.object
    /\ \A n \in DOMAIN d.before[k] \ {d.name} : d.after[k][n] = d.before[k][n]

\* C10: define_variable binds the name to the value in the innermost scope,
\* over a binding of that name there, and changes no enclosing scope and no
\* other binding; an x declared in a block leaves the outer x as it was, so
\* the program above prints 3 and then 1.
C10_DefineInnermostOnly ==
    /\ \A i \in 1..Len(evaluator.defines) : DefineFrame(evaluator.defines[i])
    /\ (eval_pc = "done" /\ tokens = ShadowProgram) =>
            /\ evaluator.output = <<<<"3">>, <<"1">>>>
            /\ evaluator.environments = <<map_insert(EmptyMap, <<"x">>, Integer(1))>>

\* a block redeclared an x that its own scope and the enclosing scope both held
C10_Witness ==
    /\ eval_pc = "done"
    /\ tokens = ShadowProgram
    /\ \E i \in 1..Len(evaluator.defines) :
        LET d == evaluator.defines[i] IN
        /\ Len(d.before) = 2
        /\ d.name \in DOMAIN d.before[1]
        /\ d.name \in DOMAIN d.before[2]
        /\ d.before[2][d.name] # d.object

\* the scopes of the stack env that bind name
ScopesWith(env, name) == {j \in 1..Len(env) : name \in DOMAIN env[j]}

\* the innermost scope of env that binds name
Innermost(env, name) == CHOOSE j \in ScopesWith(env, name) : \A i \in ScopesWith(env, name) : i <= j

\* the text println! writes for a runtime error on an undefined name
UndefinedVariable(name) == <<"Undefined variable '", name, "'.">>

\* the call recorded in a overwrote name in the innermost scope binding it,
\* changed nothing else and returned the value
AssignFrame(a) ==
    LET k == Innermost(a.before, a.name) IN
    /\ a.result.status = "Ok"
    /\ a.result.v = a.object
    /\ Len(a.after) = Len(a.before)
    /\ \A j \in 1..Len(a.before) : j # k => a.after[j] = a.before[j]
    /\ DOMAIN a.after[k] = DOMAIN a.before[k]
    /\ a.after[k][a.name] = a.object
    /\ \A n \in DOMAIN a.before[k] \ {a.name} : a.after[k][n] = a.before[k][n]

\* C11: assign_variable on a name some scope binds overwrites it in the
\* innermost such scope and nowhere else, keeps every other binding and the
\* scope count, and returns the value; an Assign expression yields the value
\* of its right side, so `var x = 1; print x = 4; print x;` prints 4 twice.
C11_AssignInnermostBinding ==
    /\ \A i \in 1..Len(evaluator.assigns) :
            ScopesWith(evaluator.assigns[i].before, evaluator.assigns[i].name) # {}
                => AssignFrame(evaluator.assigns[i])
    /\ (eval_pc = "done" /\ tokens = PrintAssignProgram) =>
            evaluator.output = <<<<"4">>, <<"4">>>>

\* an assignment two blocks deep to an x bound in the global scope and in the
\* outer block, to a value other than the one it had
C11_Witness ==
    /\ eval_pc = "done"
    /\ \E i \in 1..Len(evaluator.assigns) :
        LET a == evaluator.assigns[i] IN
        /\ Len(a.before) = 3
        /\ ScopesWith(a.before, a.name) = {1, 2}
        /\ a.before[2][a.name] # a.object
        /\ a.before[1][a.name] # a.before[2][a.name]

\* `{ x = 4; } print x;`
AssignUnboundProgram ==
    place(<<LeftBracePair>> \o assign_x("4") \o <<RightBracePair>> \o print_x \o <<EofPair>>)

\* C12: assign_variable on a name no scope binds fails with "Undefined
\* variable '<name>'." and leaves every scope as it was; a later get of the
\* name fails too, so `{ x = 4; } print x;` reports the error twice.
C12_AssignUnboundFails ==
    /\ \A i \in 1..Len(evaluator.assigns) :
        LET a == evaluator.assigns[i] IN
        ScopesWith(a.before, a.name) = {} =>
            /\ a.result.status = "Err"
            /\ a.result.message = UndefinedVariable(a.name)
            /\ a.after = a.before
    /\ (eval_pc = "done" /\ tokens = AssignUnboundProgram) =>
            /\ evaluator.output = <<<<"Error evaluating: ", UndefinedVariable(<<"x">>)>>,
                                    <<"Error evaluating: ", UndefinedVariable(<<"x">>)>>>>
            /\ evaluator.environments = <<EmptyMap>>

\* the program above has run: its assignment found no x, in two scopes
C12_Witness ==
    /\ eval_pc = "done"
    /\ tokens = AssignUnboundProgram
    /\ Len(evaluator.assigns) = 1
    /\ Len(evaluator.assigns[1].before) = 2
    /\ ScopesWith(evaluator.assigns[1].before, <<"x">>) = {}
    /\ Len(evaluator.gets) = 1

\* C13: get_variable returns the value of the innermost scope binding the
\* name, whatever enclosing scopes bind it to, fails with "Undefined variable
\* '<name>'." exactly when no scope binds it, and changes no scope; so
\* `{ var x = 1; { var x = 2; print x; } print x; }` prints 2 then 1.
C13_GetInnermostBinding ==
    /\ \A i \in 1..Len(evaluator.gets) :
        LET g == evaluator.gets[i] IN
        /\ g.after = g.before
        /\ ScopesWith(g.before, g.name) # {} =>
                /\ g.result.status = "Ok"
                /\ g.result.v = g.before[Innermost(g.before, g.name)][g.name]
        /\ ScopesWith(g.before, g.name) = {} =>
                /\ g.result.status = "Err"
                /\ g.result.message = UndefinedVariable(g.name)
    /\ (eval_pc = "done" /\ tokens = ShadowGetProgram) =>
            evaluator.output = <<<<"2">>, <<"1">>>>

\* the program above has run: a get of an x that two scopes bind to different
\* values, and a get of it after the inner scope is gone
C13_Witness ==
    /\ eval_pc = "done"
    /\ tokens = ShadowGetProgram
    /\ \E i \in 1..Len(evaluator.gets) :
        LET g == evaluator.gets[i] IN
        /\ Len(g.before) = 3
        /\ ScopesWith(g.before, g.name) = {2, 3}
        /\ g.before[2][g.name] # g.before[3][g.name]
    /\ \E i \in 1..Len(evaluator.gets) : Len(evaluator.gets[i].before) = 2

\* `var x = 1; { x = 4; z; } print x;`
ErrorKeepsEffectsProgram ==
    place(var_x("1") \o <<LeftBracePair>> \o assign_x("4") \o undefined_z \o <<RightBracePair>>
          \o print_x \o <<EofPair>>)

\* what interpret() prints for a runtime error
Reported(message) == <<"Error evaluating: ", message>>

\* C14: a runtime error in a top-level statement is printed and interpret()
\* goes on: the loop is not left, the scope stack is as deep as before, and
\* when interpret() returns every statement has been visited, in order; so
\* `var x = 1; { x = 4; z; } print x;` reports z and then prints 4.
C14_ErrorDoesNotStop ==
    /\ eval_result # None /\ eval_result.status = "Err" =>
            /\ eval_pc \in {"running", "done"}
            /\ evaluator.output[Len(evaluator.output)] = Reported(eval_result.message)
            /\ Len(evaluator.environments) = 1
    /\ eval_pc = "done" => eval_index = Len(statements) + 1
    /\ (eval_pc = "done" /\ tokens = ErrorKeepsEffectsProgram) =>
            /\ evaluator.output = <<Reported(UndefinedVariable(<<"z">>)), <<"4">>>>
            /\ evaluator.environments = <<map_insert(EmptyMap, <<"x">>, Integer(4))>>

\* the program above has run to its end past the error of its second statement
C14_Witness ==
    /\ tokens = ErrorKeepsEffectsProgram
    /\ eval_pc = "done"
    /\ Len(evaluator.output) = 2
    /\ evaluator.output[1] = Reported(UndefinedVariable(<<"z">>))

\* C15: an IntegerLiteral that does not fit an i64 gives the statement a
\* runtime error, not a panic, and the next statement runs: the program
\* `99999999999999999999; print x;` reports two errors.
C15_IntegerOverflowIsRuntimeError ==
    /\ eval_pc # "panic"
    /\ (tokens = BigLiteralProgram /\ parse_pc = "ok") =>
            /\ eval_index > 1 => Len(evaluator.output) >= 1
            /\ eval_pc = "done" => Len(evaluator.output) = 2

\* C16: `/` on two Integers is true division, a Float, when the divisor is not
\* zero, and a runtime error when it is Integer 0: in `7 / 2; 1 / 0; 0 / 0;`
\* the first statement yields 3.5 and the other two fail.
C16_IntegerDivision ==
    (tokens = DivisionProgram /\ parse_pc = "ok") =>
        /\ eval_index = 2 => (eval_result.status = "Ok" /\ eval_result.v = Float(7, 2))
        /\ eval_index \in {3, 4} => eval_result.status = "Err"
        /\ eval_pc = "done" => Len(evaluator.output) = 2

\* the operand l short-circuits the operator op
ShortCircuits(l, op) == (op = AndPair /\ l = FalsePair) \/ (op = OrPair /\ l = TruePair)

----------------------------------------------------------------------------
\* Scanner claims on comments and numbers

\* the 0-based offset in the source of the character after token i
end_of(toks, i) == offset_of(toks, i) + Len(toks[i].lexeme)

\* C19: a Comment token is `//` and the characters up to the next line feed,
\* which it does not hold: the source goes on after it with a line feed or
\* ends, so the line feed and what follows are tokens of their own.
C19_CommentEndsAtNewline ==
    \A i \in 1..Len(tokens) :
        tokens[i].token_type = "Comment" =>
            /\ SubSeq(tokens[i].lexeme, 1, 2) = <<"/", "/">>
            /\ \A k \in 1..Len(tokens[i].lexeme) : tokens[i].lexeme[k] # "NL"
            /\ end_of(tokens, i) < Len(source) => source[end_of(tokens, i) + 1] = "NL"

\* lex is digits, a `.`, digits: at least one digit on each side
IsFloatLexeme(lex) ==
    \E k \in 2..(Len(lex) - 1) :
        /\ lex[k] = "."
        /\ \A j \in (1..Len(lex)) \ {k} : is_digit(lex[j])

\* C20: a Float token is digits, `.`, and at least one digit; an Integer token
\* is digits alone, and when a `.` follows it in the source that `.` is the
\* next token, a Dot.
C20_FloatNeedsFraction ==
    \A i \in 1..Len(tokens) :
        /\ tokens[i].token_type = "Float" => IsFloatLexeme(tokens[i].lexeme)
        /\ tokens[i].token_type = "Integer" =>
            /\ \A j \in 1..Len(tokens[i].lexeme) : is_digit(tokens[i].lexeme[j])
            /\ (i < Len(tokens) /\ source[end_of(tokens, i) + 1] = ".") =>
                    tokens[i + 1].token_type = "Dot"

----------------------------------------------------------------------------
\* Parser claims on the for statement and the cursor

\* the statement and the expression the grammar builds from a clause written
\* alone
clause_statement(pairs) ==
    LET toks == place(pairs \o <<EofPair>>) IN declaration(toks, Started(toks)).v
clause_expression(pairs) ==
    LET toks == place(pairs \o <<EofPair>>) IN expression(toks, Started(toks)).v

\* Block[init, While(cond, Block[body, Expression(step)])] with the absent
\* parts left out as the claim says, for the clauses of ForLoop
ForExpected(init, cond, step) ==
    LET body == clause_statement(print_i)
        loop == WhileStmt(IF cond THEN clause_expression(i_less_3) ELSE BoolLiteral(TRUE),
                          IF step
                          THEN BlockStmt(<<body, ExpressionStmt(clause_expression(i_plus_1))>>)
                          ELSE body)
    IN CASE init = "none" -> loop
         [] init = "var" -> BlockStmt(<<clause_statement(var_i_0 \o <<SemicolonPair>>), loop>>)
         [] init = "expr" -> BlockStmt(<<clause_statement(i_assign_0 \o <<SemicolonPair>>), loop>>)

\* the iterations of ForLoop that run: three when `i < 3` and `i = i + 1` are
\* both there, and otherwise as many as the run is followed for
ForIterations(cond, step) == IF cond /\ step THEN 3 ELSE MaxIterations

HasFor(toks) == \E k \in 1..Len(toks) : toks[k].token_type = "For"

Kinds ==
    {"Integer", "Identifier", "Equal", "Minus", "LeftParen", "RightParen", "Semicolon",
     "LeftBrace", "RightBrace", "Class", "Eof"}
KindSets == {{k} : k \in Kinds} \cup {{"Minus", "Plus"}, {"Bang", "Minus"}, {"Slash", "Star"}}

\* the token after token i of toks, 0 (None) after the last
next_token(toks, i) == IF i < Len(toks) THEN i + 1 ELSE 0

\* Q is P moved by exactly one token: the current token of P is the previous
\* one of Q, and the current one of Q is the next of the list
Advanced(toks, P, Q) ==
    /\ P.current # 0
    /\ Q.previous = P.current
    /\ Q.current = next_token(toks, P.current)

\* the error carries the position of the current token of P, in the format for
\* Eof or for another token; with no current token there is no position
AtCurrent(toks, P, e) ==
    IF P.current = 0 THEN e.at = "unexpected EOF"
    ELSE /\ e.line = toks[P.current].line_number
         /\ e.column = toks[P.current].column_number
         /\ e.at = (IF toks[P.current].token_type = "Eof" THEN "at end of file" ELSE "at")

\* C22: at every cursor state a parse reaches, token_match(kinds) moves the
\* cursor by exactly one token and returns true when the current kind is among
\* kinds, and otherwise returns false and leaves the parser as it is;
\* consume(kind) moves by exactly one token and returns the current token when
\* its kind is kind, and otherwise fails with "expected <kind> after
\* expression" at the current token's line and column and leaves the parser as
\* it is. After an advance previous is the token that was current before: in a
\* run it is the token just before the current one, the last one after the end.
C22_CursorDiscipline ==
    parse_pc # "idle" =>
        /\ \A kinds \in KindSets :
                \E m \in {token_match(tokens, parser, kinds)} :
                    IF parser.current # 0 /\ tokens[parser.current].token_type \in kinds
                    THEN m.matched /\ Advanced(tokens, parser, m.P)
                    ELSE ~m.matched /\ m.P = parser
        /\ \A kind \in Kinds :
                \E c \in {consume(tokens, parser, kind)} :
                    IF parser.current # 0 /\ tokens[parser.current].token_type = kind
                    THEN c.ok /\ c.v = tokens[parser.current] /\ Advanced(tokens, parser, c.P)
                    ELSE /\ ~c.ok
                         /\ c.P = parser
                         /\ c.error.message = <<"expected", kind, "after expression">>
                         /\ AtCurrent(tokens, parser, c.error)
        /\ parser.previous = (IF parser.current # 0 THEN parser.current - 1 ELSE Len(tokens))
        /\ parse_pc = "err" => AtCurrent(tokens, parser, parse_error)

\* `1 1`: the parse matched the first token and consume(Semicolon) failed at
\* the second, which is still the current one
C22_Witness ==
    /\ parse_pc = "err"
    /\ Len(tokens) >= 2
    /\ tokens[1].token_type = "Integer"
    /\ tokens[2].token_type = "Integer"
    /\ parser.previous = 1
    /\ parser.current = 2
    /\ parse_error = consume(tokens, parser, "Semicolon").error
    /\ parse_error.column = tokens[2].column_number

\* how many tokens the parser is past the start of the list: the index of its
\* current token, one more than the length once there is none
cursor(toks, P) == IF P.current # 0 THEN P.current ELSE Len(toks) + 1

\* the parser standing at token k
CursorAt(k) == [iter |-> k, current |-> k, previous |-> k - 1]

\* a call of declaration() where a loop of parse() or block() can make it (the
\* parser is at a token that is not Eof) consumes at least one token or
\* returns an error, and the error leaves the cursor no further back
DeclarationProgress(toks) ==
    \A k \in 1..Len(toks) :
        ~is_at_end(toks, CursorAt(k)) =>
            \E d \in {declaration(toks, CursorAt(k))} :
                IF d.ok THEN cursor(toks, d.P) > k ELSE cursor(toks, d.P) >= k

\* an iteration of the loop of parse() that goes on has consumed a token and
\* pushed a statement
IterationConsumes ==
    (parse_pc = "loop" /\ parse_pc' = "loop") =>
        /\ cursor(tokens, parser') > cursor(tokens, parser)
        /\ Len(statements') = Len(statements) + 1

CursorNeverBack ==
    parse_pc # "idle" => cursor(tokens, parser') >= cursor(tokens, parser)

\* nothing of the parse changes after the error
StopsAtError == parse_pc = "err" => UNCHANGED parse_vars

\* C23: parse() returns on every token list, with or without Eof: an iteration
\* of its loop, and a call of declaration() from the loop of block(), consumes
\* at least one token or returns an error; the cursor never moves back; and
\* the first error ends the parse with no statement kept.
C23_ParseTerminates ==
    /\ [](parse_pc = "loop" /\ parser = Started(tokens) => DeclarationProgress(tokens))
    /\ [](parse_pc = "err" => statements = <<>>)
    /\ [][IterationConsumes /\ CursorNeverBack /\ StopsAtError]_vars
    /\ <>ParseDone

\* `{ } { class`, with or without Eof: the loop of parse() pushed the empty
\* block, the loop of block() called declaration() at a token no rule accepts,
\* and parse() has returned the error and no statement
C23_Witness ==
    /\ parse_pc = "err"
    /\ Len(tokens) >= 4
    /\ tokens[1].token_type = "LeftBrace"
    /\ tokens[2].token_type = "RightBrace"
    /\ tokens[3].token_type = "LeftBrace"
    /\ tokens[4].token_type = "Class"
    /\ cursor(tokens, parser) = 4
    /\ statements = <<>>

====
